---- MODULE Spec2Model ----
(***************************************************************************)
(* Make2Manage: the tick-based make-to-order simulation engine             *)
(* (useGameSimulation), its seeded initialisation (gameInitialization)     *)
(* and the SLA utility, as a state machine.                                *)
(*                                                                         *)
(* Times are integers in milliseconds; the wall clock starts at 0 when     *)
(* the engine is constructed.  An optional numeric field that the code     *)
(* leaves undefined holds NoValue; an optional order slot (inProcess) is   *)
(* a sequence of length 0 or 1.                                            *)
(***************************************************************************)
EXTENDS Integers, Sequences, FiniteSets, TLC

\* ------------------------------------------------------------------ bounds
\* Ticks the periodic driver may take in the command-level specification.
MaxTicks == 2
\* User commands (release, schedule, rebalance, undo, start, ...) per run.
MaxCmds == 4
\* Pending orders, from the head of the list, that a command is tried with.
MaxPick == 1
\* Ticks and commands of a long run, and the last tick at which a command
\* is still issued in it.
RunTicks == 1210
RunCmds == 2
RunCmdWindow == 1
\* Ticks and commands of the exploration that compares two engines.
DetTicks == 2
DetCmds == 2
\* Order dates and clock readings, in milliseconds, the SLA classification
\* is applied to: 0..SlaSpan.
SlaSpan == 10
MaxWaitMinutes == 15
SessionTicks == 3
SessionCmds == 4
\* Events of each kind, order-completed and random, that one tick appends to
\* the event log: at most one order completes per department and there are
\* four kinds of random event.
LogEvents == 4

\* the speed pass is tried with SpeedDepartments departments of up to
\* MaxMinutes minutes and routes of up to MaxRouteLen steps
SpeedDepartments == 3
MaxMinutes == 3
MaxRouteLen == 3

\* the generator is tried with seeds of up to MaxSeedLen characters, up to
\* MaxDraws calls, lists of up to MaxItems elements and, without a seed, the
\* states 0, 0.5, 1, ... up to UnseededStates + 0.5
MaxSeedLen == 2
MaxDraws == 100
MaxItems == 4
UnseededStates == 3
\* Commands around ticks: a decision, ticks, then its undo
UndoTicks == 2
UndoCmds == 4

\* --------------------------------------------------------- program constants
\* `undefined` in an optional numeric field of Order / GameSession.
NoValue == -1
\* SeededRandom.next: seed = (seed * 9301 + 49297) % 233280
LcgMul == 9301
LcgInc == 49297
LcgMod == 233280
\* a tick subtracts 1000 ms; operation durations are minutes * 60 * 1000
TickMs == 1000
MsPerMinute == 60000
\* gameEvents keeps the last 50 events
EventCap == 50

\* ------------------------------------------------------------ small helpers
Last(s) == s[Len(s)]

RECURSIVE GCD(_, _)
GCD(a, b) == IF b = 0 THEN a ELSE GCD(b, a % b)

\* floor(s * a / LcgMod) for a stream state s in 0..LcgMod-1, without leaving
\* 32-bit integers: the fraction a / LcgMod is reduced first.
ScaleFloor(s, a) ==
    LET g == GCD(a, LcgMod) IN (s * (a \div g)) \div (LcgMod \div g)

\* the least integer >= s * a / LcgMod
ScaleCeil(s, a) ==
    LET g == GCD(a, LcgMod)
        p == s * (a \div g)
        q == LcgMod \div g
    IN (p + q - 1) \div q

RECURSIVE SeqSum(_)
SeqSum(s) == IF s = <<>> THEN 0 ELSE Head(s) + SeqSum(Tail(s))

\* Array.prototype.filter((_, index) => ...): kept is the set of the indices
\* (counted from 1) that pass the test
FilterByIndex(s, kept) ==
    LET idx == SelectSeq([i \in 1..Len(s) |-> i], LAMBDA i : i \in kept)
    IN [ k \in 1..Len(idx) |-> s[idx[k]] ]

\* Array.prototype.findIndex, 1-based; 0 when nothing matches: hit[i] tells
\* whether element i passes the test
FindIndex(hit) ==
    LET hits == {i \in 1..Len(hit) : hit[i]}
    IN IF hits = {} THEN 0 ELSE CHOOSE i \in hits : \A j \in hits : i <= j

\* ---------------------------------------------------------- SeededRandom
\* hashCode: hash = ((hash << 5) - hash) + char, truncated to 32 bits at each
\* step (hash & hash), then Math.abs.  The 32-bit value is carried as two
\* 16-bit halves.
RECURSIVE hashLoop(_, _, _)
hashLoop(str, hi, lo) ==
    IF str = <<>> THEN <<hi, lo>>
    ELSE LET l == 31 * lo + Head(str)
             h == 31 * hi + (l \div 65536)
         IN hashLoop(Tail(str), h % 65536, l % 65536)

\* the result reduced modulo LcgMod, which is all that next() reads of it
hashCode(str) ==
    LET w == hashLoop(str, 0, 0)
        hi == w[1]
        lo == w[2]
        \* two's complement: negative when bit 31 is set; Math.abs
        mhi == IF hi >= 32768 THEN (IF lo = 0 THEN 65536 - hi ELSE 65535 - hi) ELSE hi
        mlo == IF hi >= 32768 THEN (IF lo = 0 THEN 0 ELSE 65536 - lo) ELSE lo
    IN (((mhi % LcgMod) * (65536 % LcgMod)) + mlo) % LcgMod

\* next(): the new stream state; the value returned is next(s) / LcgMod
next(s) == (((s * 9000) % LcgMod) + (s * (LcgMul - 9000)) + LcgInc) % LcgMod

\* a * b modulo m by doubling, without leaving 32-bit integers
RECURSIVE MulMod(_, _, _)
MulMod(a, b, m) ==
    IF b = 0 THEN 0 ELSE (2 * MulMod(a, b \div 2, m) + (b % 2) * (a % m)) % m

\* A variant of nextHalves that adds the increment once to the doubled state.
nextHalves_SingleIncrement(t) == (MulMod(t, LcgMul, 2 * LcgMod) + LcgInc) % (2 * LcgMod)

\* next() on a state that need not be a whole number: without a seed the
\* constructor takes Math.random() * 2147483647.  t is twice the state, so
\* that states ending in .5 can be told from whole ones.
nextHalves(t) == (MulMod(t, LcgMul, 2 * LcgMod) + 2 * LcgInc) % (2 * LcgMod)

\* constructor(seed): twice the states the generator can start in.  A seed
\* of no characters is falsy and leaves the state to Math.random(), of whose
\* outcomes the whole numbers and the halves up to UnseededStates stand in.
SeededRandom(seed) ==
    IF seed # <<>> THEN {2 * hashCode(seed)} ELSE 0..(2 * UnseededStates + 1)

\* Math.floor(rng.between(min, max)) for the stream state s after the draw
floorBetween(min, max, s) == min + ScaleFloor(s, max - min)

\* rng.choice(array): array[Math.floor(next() * array.length)], s after the draw
choice(array, s) == array[ScaleFloor(s, Len(array)) + 1]

\* next() < num / den
Below(s, num, den) ==
    LET g == GCD(den, LcgMod) IN s * (den \div g) < num * (LcgMod \div g)

\* ------------------------------------------------------------- data model
DepartmentIds == <<1, 2, 3, 4>>

\* Order ids: <<"ORD", n>> is `ORD-00n`, <<"WIP", n>> is `WIP-00n`.
OrderId(prefix, n) == <<prefix, n>>

\* baseDepartments: the operations (id, duration in minutes) of a department
Operations(deptId) ==
    CASE deptId = 1 -> << [id |-> "cut-1", duration |-> 8], [id |-> "prep-1", duration |-> 7] >>
      [] deptId = 2 -> << [id |-> "asm-1", duration |-> 25] >>
      [] deptId = 3 -> << [id |-> "qc-1", duration |-> 7], [id |-> "qc-2", duration |-> 5] >>
      [] deptId = 4 -> << [id |-> "pack-1", duration |-> 8] >>

StandardProcessingTime(deptId) ==
    CASE deptId = 1 -> 15 [] deptId = 2 -> 25 [] deptId = 3 -> 12 [] deptId = 4 -> 8

\* An Order with every optional field undefined.
NewOrder(id, route, createdAt, dueDate) ==
    [ id |-> id, route |-> route, currentStepIndex |-> -1, status |-> "queued",
      slaStatus |-> "on-track", createdAt |-> createdAt, dueDate |-> dueDate,
      timestamps |-> <<>>, processingTime |-> NoValue,
      processingTimeRemaining |-> NoValue, currentDepartment |-> NoValue,
      currentOperationIndex |-> NoValue, operationProgress |-> <<>>,
      scheduledStartTime |-> NoValue,
      completedAt |-> NoValue, actualLeadTime |-> NoValue ]

\* ------------------------------------------------------ generateRandomRoute
\* The do-while of one route element: draw a department, and draw again while
\* it repeats the previous one and a further draw is below 0.9.
RECURSIVE pickDept(_, _)
pickDept(route, s) ==
    LET s1 == next(s)
        nextDept == choice(DepartmentIds, s1)
    IN IF route # <<>> /\ Last(route) = nextDept
          THEN LET s2 == next(s1)
               IN IF Below(s2, 9, 10) THEN pickDept(route, s2)
                  ELSE [dept |-> nextDept, seed |-> s2]
          ELSE [dept |-> nextDept, seed |-> s1]

RECURSIVE routeLoop(_, _, _)
routeLoop(route, left, s) ==
    IF left <= 0 THEN [route |-> route, seed |-> s]
    ELSE LET p == pickDept(route, s)
         IN routeLoop(Append(route, p.dept), left - 1, p.seed)

\* A variant of generateRandomRoute whose advanced tier draws its length from
\* between(4, 9).
generateRandomRoute_Wide(s, complexityLevel) ==
    LET s1 == next(s)
        routeLength ==
            CASE complexityLevel = "beginner" -> floorBetween(2, 4, s1)
              [] complexityLevel = "intermediate" -> floorBetween(3, 6, s1)
              [] complexityLevel = "advanced" -> floorBetween(4, 9, s1)
              [] OTHER -> 4
        sAfter == IF complexityLevel \in {"beginner", "intermediate", "advanced"}
                  THEN s1 ELSE s
    IN routeLoop(<<>>, routeLength, sAfter)

generateRandomRoute(s, complexityLevel) ==
    LET s1 == next(s)
        routeLength ==
            CASE complexityLevel = "beginner" -> floorBetween(2, 4, s1)
              [] complexityLevel = "intermediate" -> floorBetween(3, 6, s1)
              [] complexityLevel = "advanced" -> floorBetween(4, 8, s1)
              [] OTHER -> 4
        sAfter == IF complexityLevel \in {"beginner", "intermediate", "advanced"}
                  THEN s1 ELSE s
    IN routeLoop(<<>>, routeLength, sAfter)

\* ---------------------------------------------------- generateInitialOrders
RECURSIVE initialOrdersLoop(_, _, _, _, _)
initialOrdersLoop(orders, i, count, s, complexityLevel) ==
    IF i >= count THEN orders
    ELSE LET r == generateRandomRoute(s, complexityLevel)
             sDue == next(r.seed)
             due == 60 * MsPerMinute + ScaleFloor(sDue, (180 - 60) * MsPerMinute)
         IN initialOrdersLoop(
                Append(orders, NewOrder(OrderId("ORD", i + 1), r.route, 0, due)),
                i + 1, count, sDue, complexityLevel)

\* the loop runs while i < orderCount, orderCount being the real rng.between
generateInitialOrders(settings) ==
    LET s1 == next(hashCode(settings.randomSeed))
        count == CASE settings.complexityLevel = "beginner" -> 3 + ScaleCeil(s1, 6 - 3)
                   [] settings.complexityLevel = "intermediate" -> 5 + ScaleCeil(s1, 10 - 5)
                   [] OTHER -> 8 + ScaleCeil(s1, 15 - 8)
    IN initialOrdersLoop(<<>>, 0, count, s1, settings.complexityLevel)

\* ------------------------------------------------------- generateInitialWIP
\* generateTimestamps: one closed 20-minute span per step up to the current one
generateTimestamps(completedSteps) ==
    [ index \in 1..Len(completedSteps) |->
        [ deptId |-> completedSteps[index],
          start |-> 0 - (Len(completedSteps) - (index - 1)) * 20 * MsPerMinute,
          end |-> 0 - (Len(completedSteps) - (index - 1) - 1) * 20 * MsPerMinute ] ]

\* one WIP order from its route and the stream state of the draw of its
\* current step; .seed is the stream state after the order's last draw
wipOrder(i, route, sStep) ==
    LET currentStep == ScaleFloor(sStep, Len(route))
        sDue == next(sStep)
        sCreated == next(sDue)
        sTime == next(sCreated)
        sRemaining == next(sTime)
        sSla == next(sRemaining)
        sSla2 == next(sSla)
        onTrack == Below(sSla, 7, 10)
        order ==
          [ NewOrder(OrderId("WIP", i + 1), route,
                     0 - (10 * MsPerMinute + ScaleCeil(sCreated, (60 - 10) * MsPerMinute)),
                     30 * MsPerMinute + ScaleFloor(sDue, (120 - 30) * MsPerMinute))
            EXCEPT !.currentStepIndex = currentStep,
                   !.status = "processing",
                   !.timestamps = generateTimestamps(SubSeq(route, 1, currentStep + 1)),
                   !.processingTime = floorBetween(15, 45, sTime),
                   !.processingTimeRemaining = floorBetween(5, 30, sRemaining),
                   !.currentDepartment = route[currentStep + 1],
                   !.slaStatus = IF onTrack THEN "on-track"
                                 ELSE IF Below(sSla2, 8, 10) THEN "at-risk"
                                 ELSE "overdue" ]
    IN [order |-> order, seed |-> IF onTrack THEN sSla ELSE sSla2]

RECURSIVE wipLoop(_, _, _, _, _)
wipLoop(orders, i, count, s, complexityLevel) ==
    IF i >= count THEN orders
    ELSE LET r == generateRandomRoute(s, complexityLevel)
             w == wipOrder(i, r.route, next(r.seed))
         IN wipLoop(Append(orders, w.order), i + 1, count, w.seed, complexityLevel)

generateInitialWIP(s, complexityLevel) ==
    LET s1 == next(s)
        count == CASE complexityLevel = "beginner" -> 2 + ScaleCeil(s1, 4 - 2)
                   [] complexityLevel = "intermediate" -> 4 + ScaleCeil(s1, 8 - 4)
                   [] OTHER -> 6 + ScaleCeil(s1, 12 - 6)
    IN wipLoop(<<>>, 0, count, s1, complexityLevel)

\* ---------------------------------------------------- initializeDepartments
\* Seven draws per department: capacity, efficiency, equipmentCondition and
\* avgCycleTime (generateRandomDepartmentConfig), then utilization,
\* totalProcessed and status.  efficiency and equipmentCondition hold the
\* stream state e of their draw: the factors are 0.8 + 0.4 e / LcgMod and
\* 0.95 + 0.05 e / LcgMod.
RECURSIVE departmentsLoop(_, _, _)
departmentsLoop(depts, i, s) ==
    IF i > Len(DepartmentIds) THEN depts
    ELSE LET sCap == next(s)
             sEff == next(sCap)
             sEq == next(sEff)
             sCycle == next(sEq)
             sUtil == next(sCycle)
             sTotal == next(sUtil)
             sStatus == next(sTotal)
             dept == [ id |-> DepartmentIds[i], queue |-> <<>>, inProcess |-> <<>>,
                       operations |-> Operations(DepartmentIds[i]),
                       standardProcessingTime |-> StandardProcessingTime(DepartmentIds[i]),
                       utilization |-> floorBetween(40, 85, sUtil),
                       totalProcessed |-> floorBetween(15, 35, sTotal),
                       capacity |-> floorBetween(80, 120, sCap),
                       efficiency |-> sEff, equipmentCondition |-> sEq,
                       status |-> IF Below(sStatus, 8, 10) THEN "available" ELSE "busy" ]
         IN departmentsLoop(Append(depts, dept), i + 1, sStatus)

initializeDepartments(settings) ==
    departmentsLoop(<<>>, 1, hashCode(settings.randomSeed))

\* ------------------------------------------------------------------ state
VARIABLES
    gameState,              \* useState<GameState>
    isRunning,              \* useState(false)
    currentDecisionIndex,   \* useState(-1)
    lastUpdateTime,         \* useRef(Date.now())
    rngSeed,                \* rngRef.current.seed
    now,                    \* the wall clock, Date.now()
    faulted,                \* a handler threw while the state was being computed
    nTicks, nCmds,          \* steps taken so far
    limits,                 \* how far this exploration goes
    track                   \* what the most recent steps were, for the properties

vars == << gameState, isRunning, currentDecisionIndex, lastUpdateTime, rngSeed,
           now, faulted, nTicks, nCmds, limits, track >>

\* ---------------------------------------------------------------- settings
SeedTutorial == <<116, 117, 116, 111, 114, 105, 97, 108, 45, 115, 101, 101, 100>>

\* QuickStartScenarios `tutorial`
TutorialSettings ==
    [ sessionDuration |-> 15, orderGenerationRate |-> "low",
      complexityLevel |-> "beginner", randomSeed |-> SeedTutorial,
      enableEvents |-> FALSE, gameSpeed |-> 1 ]

SettingsChoices == {TutorialSettings}

\* QuickStartScenarios `rush-mode`: double speed, with random events
SeedRush == <<114, 117, 115, 104, 45, 115, 101, 101, 100>>

RushSettings ==
    [ sessionDuration |-> 15, orderGenerationRate |-> "high",
      complexityLevel |-> "advanced", randomSeed |-> SeedRush,
      enableEvents |-> TRUE, gameSpeed |-> 2 ]

\* `seed-1764`: the one order left in process by initialisation is on the
\* last step of its route and is done at the first tick, and the stream has
\* no arrival in the first 2436 ticks.
SeedDrained == <<115, 101, 101, 100, 45, 49, 55, 54, 52>>

\* `seed-91`: departments 1 and 2 start with an order in process whose next
\* step is department 3.
SeedHandOff == <<115, 101, 101, 100, 45, 57, 49>>

\* `seed-65`: ORD-001 starts at department 3, which is idle, and department 2
\* starts with an order in process whose next step is department 3.
SeedQueued == <<115, 101, 101, 100, 45, 54, 53>>

DrainedSettings ==
    [ sessionDuration |-> 30, orderGenerationRate |-> "low",
      complexityLevel |-> "beginner", randomSeed |-> SeedDrained,
      enableEvents |-> FALSE, gameSpeed |-> 1 ]

HandOffSettings ==
    [ sessionDuration |-> 30, orderGenerationRate |-> "low",
      complexityLevel |-> "beginner", randomSeed |-> SeedHandOff,
      enableEvents |-> FALSE, gameSpeed |-> 1 ]

QueuedSettings ==
    [ sessionDuration |-> 30, orderGenerationRate |-> "low",
      complexityLevel |-> "beginner", randomSeed |-> SeedQueued,
      enableEvents |-> FALSE, gameSpeed |-> 1 ]

\* `seed-7120`, with random events: the first tick generates an equipment
\* failure at department 3, which holds an order in process.
SeedFailure == <<115, 101, 101, 100, 45, 55, 49, 50, 48>>

FailureSettings ==
    [ sessionDuration |-> 30, orderGenerationRate |-> "low",
      complexityLevel |-> "beginner", randomSeed |-> SeedFailure,
      enableEvents |-> TRUE, gameSpeed |-> 1 ]

\* `seed-2313`: departments 2 and 4 start with an order in process on the
\* last step of its route, the one at department 2 initialised as overdue and
\* the one at department 4 as on-track; department 1 holds a third one.
SeedMixed == <<115, 101, 101, 100, 45, 50, 51, 49, 51>>

MixedSettings ==
    [ sessionDuration |-> 30, orderGenerationRate |-> "low",
      complexityLevel |-> "beginner", randomSeed |-> SeedMixed,
      enableEvents |-> FALSE, gameSpeed |-> 1 ]

\* `seed-1109`: the route of ORD-001 is department 4 twice, department 4
\* starts with an order on its last step, and the stream has no arrival in
\* the 1800 ticks of the session.
SeedRepeat == <<115, 101, 101, 100, 45, 49, 49, 48, 57>>

RepeatSettings ==
    [ sessionDuration |-> 30, orderGenerationRate |-> "low",
      complexityLevel |-> "beginner", randomSeed |-> SeedRepeat,
      enableEvents |-> FALSE, gameSpeed |-> 1 ]

\* ------------------------------------------------------ initializeGameState
createGameSession(settings) ==
    [ duration |-> settings.sessionDuration * MsPerMinute, status |-> "setup",
      settings |-> settings, elapsedTime |-> 0,
      startTime |-> NoValue, endTime |-> NoValue ]

\* wipOrders.forEach: every WIP order has status processing and is assigned
\* to its department's inProcess slot, replacing what the slot held.
RECURSIVE distributeWIP(_, _)
distributeWIP(departments, wipOrders) ==
    IF wipOrders = <<>> THEN departments
    ELSE LET order == Head(wipOrders)
             placed == [ i \in 1..Len(departments) |->
                           IF departments[i].id = order.currentDepartment
                           THEN IF order.status = "processing"
                                THEN [departments[i] EXCEPT !.inProcess = <<order>>]
                                ELSE [departments[i] EXCEPT !.queue = Append(@, order)]
                           ELSE departments[i] ]
         IN distributeWIP(placed, Tail(wipOrders))

utilizationRates(departments) ==
    [ id \in {departments[i].id : i \in 1..Len(departments)} |->
        LET i == CHOOSE j \in 1..Len(departments) :
                     /\ departments[j].id = id
                     /\ \A k \in 1..Len(departments) : departments[k].id = id => k <= j
        IN departments[i].utilization ]

\* GameState.decisions as the hook's version of initializeGameState returns
\* it: the hook reads prev.decisions and gameState.customers, which the
\* initializeGameState at hand does not set
initialDecisions == <<>>

\* the four sample customers, by id and tier
generateSampleCustomers ==
    << [id |-> "CUST-001", tier |-> "vip"], [id |-> "CUST-002", tier |-> "premium"],
       [id |-> "CUST-003", tier |-> "standard"], [id |-> "CUST-004", tier |-> "premium"] >>

\* The dates of an order generated at time 0, for a generation at time t
atTime(order, t) ==
    [ order EXCEPT !.createdAt = @ + t, !.dueDate = @ + t,
                   !.timestamps = [ i \in 1..Len(@) |->
                                      [@[i] EXCEPT !.start = @ + t, !.end = @ + t] ] ]

allAtTime(orders, t) == [ i \in 1..Len(orders) |-> atTime(orders[i], t) ]

\* the object initializeGameState returns
initialState(settings, t, pendingOrders, wipOrders, departments) ==
       [ session |-> createGameSession(settings),
         departments |-> departments,
         pendingOrders |-> pendingOrders,
         completedOrders |-> <<>>,
         rejectedOrders |-> <<>>,
         totalOrdersGenerated |-> Len(pendingOrders) + Len(wipOrders),
         gameEvents |-> << [ id |-> <<t, NoValue, NoValue>>, type |-> "order-generated",
                             severity |-> "info", orderId |-> <<"", 0>>,
                             departmentId |-> NoValue ] >>,
         performance |-> [ onTimeDeliveryRate |-> <<0, 1>>, averageLeadTime |-> <<0, 1>>,
                           totalThroughput |-> 0,
                           utilizationRates |-> utilizationRates(departments),
                           bottleneckDepartment |-> NoValue ],
         decisions |-> initialDecisions,
         customers |-> generateSampleCustomers ]

withOrders(settings, t, pendingOrders, wipOrders) ==
    initialState(settings, t, pendingOrders, wipOrders,
                 distributeWIP(initializeDepartments(settings), wipOrders))

\* t is Date.now() at the call
initializeGameState(settings, t) ==
    withOrders(settings, t,
               allAtTime(generateInitialOrders(settings), t),
               allAtTime(generateInitialWIP(hashCode(settings.randomSeed),
                                            settings.complexityLevel), t))

\* What the properties need to know of the steps taken: the last command and
\* its arguments; for a run of releases followed by undos, the contents before
\* the first release and the number of releases not yet undone; for an order
\* released while every department was idle, its id, the tick of the release
\* and the total duration of its route in ticks.
NoTrack ==
    [ cmd |-> "none", orderId |-> <<"", 0>>, arg |-> <<>>, chain |-> "none",
      n |-> 0, base |-> <<>>, idle |-> <<>> ]

InitWith(settingsChoices, lim) ==
    /\ \E settings \in settingsChoices : gameState = initializeGameState(settings, 0)
    /\ isRunning = FALSE
    /\ currentDecisionIndex = -1
    /\ lastUpdateTime = 0
    /\ rngSeed = hashCode(gameState.session.settings.randomSeed)
    /\ now = 0
    /\ faulted = FALSE
    /\ nTicks = 0
    /\ nCmds = 0
    /\ limits = lim
    /\ track = NoTrack

\* ---------------------------------------------------------- updateSLAStatus
\* elapsed / totalTime > 0.8 on the floating-point quotient: a zero totalTime
\* gives NaN or an infinity, and only +Infinity is greater than 0.8.
ProgressAbove80(elapsed, totalTime) ==
    IF totalTime > 0 THEN 5 * elapsed > 4 * totalTime
    ELSE IF totalTime < 0 THEN 5 * elapsed < 4 * totalTime
    ELSE elapsed > 0

\* A variant of updateSLAStatus with the boundary on the other side: a
\* progress of exactly 0.8 is at-risk.
updateSLAStatus_AtLeast80(order, t) ==
    LET timeLeft == order.dueDate - t
        totalTime == order.dueDate - order.createdAt
        elapsed == t - order.createdAt
    IN [ order EXCEPT !.slaStatus =
           IF timeLeft < 0 THEN "overdue"
           ELSE IF totalTime > 0 /\ 5 * elapsed >= 4 * totalTime THEN "at-risk"
           ELSE "on-track" ]

updateSLAStatus(order, t) ==
    LET timeLeft == order.dueDate - t
        totalTime == order.dueDate - order.createdAt
        elapsed == t - order.createdAt
    IN [ order EXCEPT !.slaStatus =
           IF timeLeft < 0 THEN "overdue"
           ELSE IF ProgressAbove80(elapsed, totalTime) THEN "at-risk"
           ELSE "on-track" ]

\* utils getSLAStatus(order).status
getSLAStatus(order, t) ==
    LET timeLeft == order.dueDate - t
        totalTime == order.dueDate - order.createdAt
        elapsed == t - order.createdAt
    IN IF timeLeft < 0 THEN "overdue"
       ELSE IF ProgressAbove80(elapsed, totalTime) THEN "at-risk"
       ELSE "on-track"

\* ------------------------------------------------- processDepartmentUpdates
DeptIndex(departments, id) == FindIndex([ix \in 1..Len(departments) |-> departments[ix].id = id])

\* order.currentOperationIndex || 0, order.processingTimeRemaining || 0
OrZero(v) == IF v = NoValue THEN 0 ELSE v

\* "Mark current operation as completed": the progress entry of the current
\* operation is changed in place.
markOperationCompleted(order, dept, t) ==
    LET currentOperation == dept.operations[OrZero(order.currentOperationIndex) + 1]
        progressIndex == FindIndex([ix \in 1..Len(order.operationProgress) |-> order.operationProgress[ix].operationId = currentOperation.id])
    IN IF progressIndex = 0 THEN order
       ELSE [ order EXCEPT !.operationProgress[progressIndex].completed = TRUE,
                           !.operationProgress[progressIndex].endTime = t ]

\* "Add completion timestamp for this department": the last span, if open, is
\* closed in place.
closeLastTimestamp(order, t) ==
    IF order.timestamps # <<>> /\ Last(order.timestamps).end = NoValue
    THEN [ order EXCEPT !.timestamps[Len(order.timestamps)].end = t ]
    ELSE order

newProgressEntry(operation, t) ==
    [ operationId |-> operation.id, startTime |-> t, endTime |-> NoValue,
      duration |-> operation.duration, completed |-> FALSE ]

\* "Start processing next order in queue"
startNextOrder(dept, t) ==
    LET nextOrder == Head(dept.queue)
        firstOperation == dept.operations[1]
        processingTime == firstOperation.duration * MsPerMinute
    IN [ dept EXCEPT
           !.queue = Tail(dept.queue),
           !.inProcess = << [ nextOrder EXCEPT
               !.status = "processing",
               !.processingTime = processingTime,
               !.processingTimeRemaining = processingTime,
               !.currentOperationIndex = 0,
               !.operationProgress = << newProgressEntry(firstOperation, t) >>,
               !.timestamps = Append(nextOrder.timestamps,
                                     [deptId |-> dept.id, start |-> t, end |-> NoValue]) ] >> ]

\* "Update utilization" and "Update status"
updateUtilization(dept) ==
    LET processingLoad == IF dept.inProcess # <<>> THEN 1 ELSE 0
        load == (Len(dept.queue) + processingLoad) * 25
        utilization == IF load < 100 THEN load ELSE 100
    IN [ dept EXCEPT !.utilization = utilization,
                     !.status = IF utilization > 85 THEN "overloaded"
                                ELSE IF utilization > 50 THEN "busy"
                                ELSE "available" ]

\* [q, r] with a * b = q * c + r and 0 <= r < c for b < 2^24 and c < 2^22,
\* one byte of b at a time so that no intermediate value leaves 32-bit
\* integers
MulDivStep(h, a, digit, c) ==
    LET r2 == 256 * h.r + digit * (a % c)
    IN [q |-> 256 * h.q + digit * (a \div c) + (r2 \div c), r |-> r2 % c]

MulDiv(a, b, c) ==
    MulDivStep(MulDivStep(MulDivStep([q |-> 0, r |-> 0], a, b \div 65536, c),
                          a, (b \div 256) % 256, c),
               a, b % 256, c)

\* calculateProcessingTime: Math.floor(baseTime * efficiency * equipment *
\* complexity).  With the draws e and q behind efficiency = 0.8 + 0.4 e / LcgMod
\* and equipmentCondition = 0.95 + 0.05 q / LcgMod the product is
\* std * cx * (466560 + e) * (4432320 + q) / (243 * 1866240), cx in tenths.
calculateProcessingTime(order, department) ==
    LET complexityFactor == IF Len(order.route) > 5 THEN 12
                            ELSE IF Len(order.route) < 3 THEN 8 ELSE 10
        byEfficiency == MulDiv(department.standardProcessingTime * complexityFactor,
                               466560 + department.efficiency, 243)
        \* (q + r / 243) * (4432320 + c) / 1866240, the two parts separately
        eq == 4432320 + department.equipmentCondition
        whole == MulDiv(byEfficiency.q, eq, 1866240)
        part == MulDiv(byEfficiency.r, eq, 243)
        rest == whole.r + part.q
    IN whole.q + (rest \div 1866240)

\* An event id `event-${Date.now()}-${Math.random()}` is <<t, r, r2>>: r is
\* what Math.random() returned in this engine and r2 what it returned in a
\* second engine constructed with the same seed and settings and driven by
\* the same ticks and commands; rnd is the pair <<r, r2>>.
orderCompletedEvent(order, deptId, t, rnd) ==
    [ id |-> <<t, rnd[1], rnd[2]>>, type |-> "order-completed",
      severity |-> IF order.status = "completed-on-time" THEN "success" ELSE "warning",
      orderId |-> order.id, departmentId |-> deptId ]

\* The accumulator of departments.forEach: acc.orig is the array passed in,
\* with the in-place changes made so far; acc.updated, acc.completed and
\* acc.events are the arrays being built; acc.targets holds the ids whose
\* entry in acc.updated was created by a hand-off ({...department, queue: []})
\* and so shares its inProcess order with acc.orig.

\* timeRemaining <= 0 for the order in process
opDone(dept) ==
    /\ dept.inProcess # <<>>
    /\ OrZero(dept.inProcess[1].processingTimeRemaining) - TickMs <= 0

\* nextOpIndex < department.operations.length
moreOps(dept) ==
    OrZero(dept.inProcess[1].currentOperationIndex) + 1 < Len(dept.operations)

\* the order object in process after this iteration's in-place changes
inPlaceOrder(dept, t) ==
    IF ~opDone(dept) THEN dept.inProcess[1]
    ELSE IF moreOps(dept) THEN markOperationCompleted(dept.inProcess[1], dept, t)
    ELSE closeLastTimestamp(markOperationCompleted(dept.inProcess[1], dept, t), t)

\* the in-place changes are seen through acc.orig and through an entry of
\* acc.updated that a hand-off created from the same department object
writeInPlace(acc, i, inPlace) ==
    [ acc EXCEPT
        !.orig[i].inProcess = <<inPlace>>,
        !.updated = IF acc.orig[i].id \in acc.targets
                    THEN [ k \in 1..Len(acc.updated) |->
                             IF acc.updated[k].id = acc.orig[i].id
                             THEN [acc.updated[k] EXCEPT !.inProcess = <<inPlace>>]
                             ELSE acc.updated[k] ]
                    ELSE acc.updated ]

\* "All operations completed": the order leaves the system
completeOrder(acc, completedOrder, deptId, t, rnd) ==
    LET finished == [ completedOrder EXCEPT
                        !.status = IF completedOrder.slaStatus = "overdue"
                                   THEN "completed-late" ELSE "completed-on-time",
                        !.completedAt = t,
                        !.actualLeadTime = (t - completedOrder.createdAt) \div MsPerMinute ]
    IN [ acc EXCEPT !.completed = Append(@, finished),
                    !.events = Append(@, orderCompletedEvent(finished, deptId, t, rnd)) ]

\* "Move to next department": the target is the entry of updatedDepartments
\* when there is one, and otherwise a new entry {...nextDept, queue: []} made
\* from the department as it was passed in
moveToNext(acc, completedOrder, nextStepIndex, nextDeptId, nextIdx, targetIdx) ==
    LET moved == [ completedOrder EXCEPT
                     !.currentStepIndex = nextStepIndex,
                     !.currentDepartment = nextDeptId,
                     !.status = "queued",
                     !.processingTime = calculateProcessingTime(completedOrder, acc.orig[nextIdx]),
                     !.currentOperationIndex = 0,
                     !.operationProgress = <<>> ]
    IN IF targetIdx # 0
       THEN [acc EXCEPT !.updated[targetIdx].queue = Append(@, moved)]
       ELSE [ acc EXCEPT
                !.updated = Append(@, [acc.orig[nextIdx] EXCEPT !.queue = <<moved>>]),
                !.targets = @ \cup {nextDeptId} ]

\* "All operations completed for this department"
leaveDepartment(acc, completedOrder, deptId, t, rnd) ==
    LET nextStepIndex == completedOrder.currentStepIndex + 1
        nextDeptId == completedOrder.route[nextStepIndex + 1]
    IN IF nextStepIndex >= Len(completedOrder.route)
       THEN completeOrder(acc, completedOrder, deptId, t, rnd)
       ELSE IF DeptIndex(acc.orig, nextDeptId) = 0 THEN acc
       ELSE moveToNext(acc, completedOrder, nextStepIndex, nextDeptId,
                       DeptIndex(acc.orig, nextDeptId), DeptIndex(acc.updated, nextDeptId))

\* updatedDept, a copy of the department with a copy of its queue, after the
\* part of the iteration about the order in process
afterOrder(dept, t) ==
    LET order == dept.inProcess[1]
        nextOpIndex == OrZero(order.currentOperationIndex) + 1
        nextOperation == dept.operations[nextOpIndex + 1]
    IN IF dept.inProcess = <<>> THEN dept
       ELSE IF ~opDone(dept)
       THEN [ dept EXCEPT !.inProcess[1].processingTimeRemaining =
                              OrZero(order.processingTimeRemaining) - TickMs ]
       ELSE IF moreOps(dept)
       THEN [ dept EXCEPT !.inProcess = << [ markOperationCompleted(order, dept, t) EXCEPT
                !.currentOperationIndex = nextOpIndex,
                !.processingTime = nextOperation.duration * MsPerMinute,
                !.processingTimeRemaining = nextOperation.duration * MsPerMinute,
                !.operationProgress = Append(@, newProgressEntry(nextOperation, t)) ] >> ]
       ELSE [dept EXCEPT !.inProcess = <<>>, !.totalProcessed = @ + 1]

startIfIdle(dept, t) ==
    IF dept.inProcess = <<>> /\ dept.queue # <<>> THEN startNextOrder(dept, t) ELSE dept

\* "Only add the department if it wasn't already updated as a target"
pushUnlessTarget(acc, updatedDept) ==
    IF DeptIndex(acc.updated, updatedDept.id) = 0
    THEN [acc EXCEPT !.updated = Append(@, updatedDept)]
    ELSE acc

\* the part of the iteration about an order whose department is done
settleOrder(acc, i, dept, t, rnd) ==
    IF opDone(dept) /\ ~moreOps(dept)
    THEN leaveDepartment(acc, [acc.orig[i].inProcess[1] EXCEPT !.processingTimeRemaining = 0],
                         dept.id, t, rnd)
    ELSE acc

\* One iteration of departments.forEach; dept is the department as the
\* iteration found it
stepWith(acc, i, dept, t, rnd) ==
    pushUnlessTarget(
        settleOrder(IF dept.inProcess = <<>> THEN acc
                    ELSE writeInPlace(acc, i, inPlaceOrder(dept, t)),
                    i, dept, t, rnd),
        updateUtilization(startIfIdle(afterOrder(dept, t), t)))

stepDepartment(acc, i, t, rnd) == stepWith(acc, i, acc.orig[i], t, rnd)

RECURSIVE forEachDepartment(_, _, _, _)
forEachDepartment(acc, i, t, rnd) ==
    IF i > Len(acc.orig) THEN acc
    ELSE forEachDepartment(stepDepartment(acc, i, t, rnd), i + 1, t, rnd)

\* returns updatedDepartments, completedOrders and events as .updated,
\* .completed and .events
processDepartmentUpdates(departments, t, rnd) ==
    forEachDepartment([ orig |-> departments, updated |-> <<>>, targets |-> {},
                        completed |-> <<>>, events |-> <<>> ], 1, t, rnd)

\* ----------------------------------------------------- generateRandomEvents
randomEvent(type, severity, deptId, t, rnd) ==
    [ id |-> <<t, rnd[1], rnd[2]>>, type |-> type, severity |-> severity,
      orderId |-> <<"", 0>>, departmentId |-> deptId ]

\* Four draws when events are enabled, a fifth and a sixth for the choice of
\* the affected and of the boosted department.  Returns the events and the
\* stream state after the draws.
generateRandomEvents(enableEvents, departments, s, t, rnd) ==
    IF ~enableEvents THEN [events |-> <<>>, seed |-> s]
    ELSE LET sFail == next(s)
             failing == Below(sFail, 1, 1000)
             candidates == SelectSeq(departments, LAMBDA d : d.status # "maintenance")
             sFailDept == IF failing THEN next(sFail) ELSE sFail
             failure == IF failing /\ candidates # <<>>
                        THEN << randomEvent("equipment-failure", "error",
                                            choice(candidates, sFailDept).id, t, rnd) >>
                        ELSE <<>>
             sRush == next(sFailDept)
             rush == IF Below(sRush, 5, 10000)
                     THEN << randomEvent("rush-order", "warning", NoValue, t, rnd) >>
                     ELSE <<>>
             sDelay == next(sRush)
             delay == IF Below(sDelay, 2, 10000)
                      THEN << randomEvent("delivery-delay", "warning", NoValue, t, rnd) >>
                      ELSE <<>>
             sBoost == next(sDelay)
             boosting == Below(sBoost, 3, 10000)
             sBoostDept == IF boosting THEN next(sBoost) ELSE sBoost
             boost == IF boosting
                      THEN << randomEvent("efficiency-boost", "success",
                                          choice(departments, sBoostDept).id, t, rnd) >>
                      ELSE <<>>
         IN [events |-> failure \o rush \o delay \o boost, seed |-> sBoostDept]

\* --------------------------------------------------- generateOptimizedRoute
getProcessFlowTemplates(complexityLevel) ==
    CASE complexityLevel = "beginner" ->
           << <<"prep", "assembly", "quality">>,
              <<"cutting", "assembly", "packaging">>,
              <<"prep", "quality", "packaging">> >>
      [] complexityLevel = "intermediate" ->
           << <<"cutting", "prep", "assembly", "quality", "packaging">>,
              <<"prep", "cutting", "assembly", "assembly", "quality">>,
              <<"cutting", "assembly", "quality", "assembly", "packaging">>,
              <<"prep", "assembly", "quality", "packaging", "quality">> >>
      [] complexityLevel = "advanced" ->
           << <<"cutting", "prep", "assembly", "quality", "assembly", "quality", "packaging">>,
              <<"prep", "cutting", "assembly", "assembly", "quality", "assembly", "packaging">>,
              <<"cutting", "prep", "assembly", "quality", "assembly", "quality", "assembly", "packaging">>,
              <<"prep", "cutting", "assembly", "quality", "prep", "assembly", "quality", "packaging">> >>
      [] OTHER -> << <<"cutting", "assembly", "quality", "packaging">> >>

\* The operation names of baseDepartments matched against a required
\* operation: `Material Cutting` and `Surface Preparation` (department 1),
\* `Component Assembly` (2), `Final Packaging` (4); no name matches `quality`.
canPerform(deptId, requiredOperation) ==
    \/ deptId = 1 /\ requiredOperation \in {"cutting", "prep"}
    \/ deptId = 2 /\ requiredOperation = "assembly"
    \/ deptId = 4 /\ requiredOperation = "packaging"

RECURSIVE generateBaseRoute(_, _, _, _)
generateBaseRoute(processFlow, departments, route, s) ==
    IF processFlow = <<>> THEN [route |-> route, seed |-> s]
    ELSE LET capableDepartments ==
                 SelectSeq(departments, LAMBDA d : canPerform(d.id, Head(processFlow)))
             s1 == next(s)
             selected == IF capableDepartments # <<>> THEN choice(capableDepartments, s1)
                         ELSE choice(departments, s1)
         IN generateBaseRoute(Tail(processFlow), departments, Append(route, selected.id), s1)

\* The four optimisation passes replace a department only by another one
\* offering an operation of the same name; no two departments of
\* baseDepartments do, so the passes return the base route.
generateOptimizedRoute(s, departments, complexityLevel) ==
    LET sFlow == next(s)
        selectedFlow == choice(getProcessFlowTemplates(complexityLevel), sFlow)
    IN generateBaseRoute(selectedFlow, departments, <<>>, sFlow)

\* --------------------------------------------------------- optimizeForSpeed
\* departmentNodes: the view of the departments the passes work on
departmentNodes(departments) ==
    [ i \in 1..Len(departments) |->
        [ id |-> departments[i].id,
          operations |-> [ k \in 1..Len(departments[i].operations) |->
                             departments[i].operations[k].name ],
          avgProcessingTime |-> departments[i].standardProcessingTime,
          utilization |-> departments[i].utilization ] ]

\* deptMap[deptId]: reduce assigns acc[dept.id] in array order, so the last
\* department with the id is the one found; 0 when there is none
deptMapIndex(departments, deptId) ==
    IF \E i \in 1..Len(departments) : departments[i].id = deptId
    THEN CHOOSE i \in 1..Len(departments) :
            /\ departments[i].id = deptId
            /\ \A j \in 1..Len(departments) : departments[j].id = deptId => j <= i
    ELSE 0

\* dept.operations.some(op => currentDept.operations.includes(op))
sharesOperation(dept, currentDept) ==
    \E a \in 1..Len(dept.operations), b \in 1..Len(currentDept.operations) :
        dept.operations[a] = currentDept.operations[b]

\* alternatives.reduce((best, current) =>
\*   current.avgProcessingTime < best.avgProcessingTime ? current : best)
RECURSIVE fastestOf(_, _)
fastestOf(best, rest) ==
    IF rest = <<>> THEN best
    ELSE fastestOf(IF Head(rest).avgProcessingTime < best.avgProcessingTime
                   THEN Head(rest) ELSE best,
                   Tail(rest))

\* A variant of fasterDepartment that takes the first faster alternative.
fasterDepartment_First(deptId, departments, at) ==
    IF at = 0 THEN deptId
    ELSE LET alternatives ==
                 SelectSeq(departments,
                           LAMBDA dept :
                               /\ dept.id # deptId
                               /\ dept.avgProcessingTime < departments[at].avgProcessingTime
                               /\ sharesOperation(dept, departments[at]))
         IN IF alternatives # <<>> THEN Head(alternatives).id ELSE deptId

\* the callback of route.map
fasterDepartment(deptId, departments, at) ==
    IF at = 0 THEN deptId
    ELSE LET alternatives ==
                 SelectSeq(departments,
                           LAMBDA dept :
                               /\ dept.id # deptId
                               /\ dept.avgProcessingTime < departments[at].avgProcessingTime
                               /\ sharesOperation(dept, departments[at]))
         IN IF alternatives # <<>>
            THEN fastestOf(Head(alternatives), Tail(alternatives)).id
            ELSE deptId

optimizeForSpeed(route, departments) ==
    [ k \in 1..Len(route) |->
        fasterDepartment(route[k], departments, deptMapIndex(departments, route[k])) ]

\* calculateRouteMetrics: the time, the rounded cost (2.5 a minute) and the
\* bottleneck risk of a route; reliability and flexibilityScore, floating
\* point values, are left out.  A step that is no department adds nothing.
RECURSIVE calculateRouteMetrics(_, _)
calculateRouteMetrics(route, departments) ==
    IF route = <<>> THEN [totalTime |-> 0, totalCost |-> 0, bottleneckRisk |-> 0]
    ELSE LET rest == calculateRouteMetrics(Tail(route), departments)
             i == deptMapIndex(departments, Head(route))
             time == IF i = 0 THEN 0 ELSE departments[i].standardProcessingTime
             risk == IF i = 0 THEN 0
                     ELSE IF departments[i].utilization > 80 THEN 2
                     ELSE IF departments[i].utilization > 60 THEN 1 ELSE 0
         IN [ totalTime |-> rest.totalTime + time,
              totalCost |-> (5 * (rest.totalTime + time) + 1) \div 2,
              bottleneckRisk |-> rest.bottleneckRisk + risk ]

\* -------------------------------------------------------- generateNewOrders
generationChance(orderGenerationRate) ==
    CASE orderGenerationRate = "low" -> 2
      [] orderGenerationRate = "medium" -> 3
      [] orderGenerationRate = "high" -> 5
      [] OTHER -> 0

\* enableAdvancedRouting !== false: a settings object without the field
\* selects the advanced routing
advancedRouting(settings) ==
    "enableAdvancedRouting" \notin DOMAIN settings \/ settings.enableAdvancedRouting # FALSE

\* The route of a new order and the stream state after its draws, sGen being
\* the state after the arrival draw: generateOptimizedRoute after the four
\* draws of its options, or generateRandomRoute
newOrderRoute(settings, departments, sGen) ==
    IF advancedRouting(settings)
    THEN generateOptimizedRoute(next(next(next(next(sGen)))), departments,
                                settings.complexityLevel)
    ELSE generateRandomRoute(sGen, settings.complexityLevel)

\* Returns the new orders, the stream state after the draws and whether the
\* call threw: customers[rng.between(0, length - 1)] is an element only when
\* the real-valued index is a whole number, and reading .tier of undefined
\* throws.
generateNewOrders(gs, s, t) ==
    LET settings == gs.session.settings
        sGen == next(s)
        r == newOrderRoute(settings, gs.departments, sGen)
        sCustomer == next(r.seed)
        span == Len(gs.customers) - 1
        whole == span >= 0 /\ (sCustomer * span) % LcgMod = 0
        sValue == next(sCustomer)
        sPriority == next(sValue)
        sRushOrder == next(sPriority)
        sDue == next(sRushOrder)
        dueDate == t + 90 * MsPerMinute + ScaleFloor(sDue, (240 - 90) * MsPerMinute)
    IN IF ~Below(sGen, generationChance(settings.orderGenerationRate), 1000)
       THEN [orders |-> <<>>, seed |-> sGen, threw |-> FALSE]
       ELSE IF ~whole THEN [orders |-> <<>>, seed |-> sCustomer, threw |-> TRUE]
       ELSE [ orders |-> << NewOrder(OrderId("ORD", gs.totalOrdersGenerated + 1),
                                     r.route, t, dueDate) >>,
              seed |-> sDue, threw |-> FALSE ]

\* ----------------------------------------------------------- simulationStep
\* averages are kept as fractions <<numerator, denominator>> in lowest terms
Fraction(n, d) == IF n = 0 THEN <<0, 1>> ELSE << n \div GCD(n, d), d \div GCD(n, d) >>

\* updatedDepartments.reduce((max, dept) => dept.utilization >
\*   (find(max)?.utilization || 0) ? dept.id : max, 1)
RECURSIVE bottleneckReduce(_, _, _)
bottleneckReduce(departments, i, max) ==
    IF i > Len(departments) THEN max
    ELSE LET k == DeptIndex(departments, max)
             best == IF k = 0 THEN 0 ELSE departments[k].utilization
         IN bottleneckReduce(departments, i + 1,
                IF departments[i].utilization > best THEN departments[i].id ELSE max)

LastN(s, n) == IF Len(s) <= n THEN s ELSE SubSeq(s, Len(s) - n + 1, Len(s))

\* A variant of performanceOf that gives the on-time rate as a share of 1.
performanceOf_Unscaled(allCompleted, departments) ==
    LET totalCompleted == Len(allCompleted)
    IN [ onTimeDeliveryRate |->
             Fraction(Len(SelectSeq(allCompleted,
                                    LAMBDA o : o.status = "completed-on-time")),
                      totalCompleted),
         averageLeadTime |->
             Fraction(SeqSum([ i \in 1..totalCompleted |->
                                 OrZero(allCompleted[i].actualLeadTime) ]),
                      totalCompleted),
         totalThroughput |-> totalCompleted,
         utilizationRates |-> utilizationRates(departments),
         bottleneckDepartment |-> bottleneckReduce(departments, 1, 1) ]

\* "Calculate performance metrics"
performanceOf(allCompleted, departments) ==
    LET totalCompleted == Len(allCompleted)
    IN [ onTimeDeliveryRate |->
             Fraction(Len(SelectSeq(allCompleted,
                                    LAMBDA o : o.status = "completed-on-time")) * 100,
                      totalCompleted),
         averageLeadTime |->
             Fraction(SeqSum([ i \in 1..totalCompleted |->
                                 OrZero(allCompleted[i].actualLeadTime) ]),
                      totalCompleted),
         totalThroughput |-> totalCompleted,
         utilizationRates |-> utilizationRates(departments),
         bottleneckDepartment |-> bottleneckReduce(departments, 1, 1) ]

\* A variant of appendEvents that puts the random events before the
\* department events.
appendEvents_RandomFirst(gameEvents, events, randomEvents) ==
    LastN(gameEvents \o randomEvents \o events, EventCap)

\* [...prevState.gameEvents, ...allEvents].slice(-50), allEvents being
\* [...events, ...randomEvents]
appendEvents(gameEvents, events, randomEvents) ==
    LastN(gameEvents \o events \o randomEvents, EventCap)

\* the state the updater returns, from the results of generateNewOrders,
\* processDepartmentUpdates and generateRandomEvents
newState(prevState, arrivals, deltaTime, t, upd, random) ==
    [ state |->
        [ prevState EXCEPT
            !.session.elapsedTime = @ + deltaTime,
            !.departments = upd.updated,
            !.pendingOrders =
                [ i \in 1..Len(@) |-> updateSLAStatus(@[i], t) ] \o arrivals.orders,
            !.completedOrders = @ \o upd.completed,
            !.totalOrdersGenerated = @ + Len(arrivals.orders),
            !.gameEvents = appendEvents(@, upd.events, random.events),
            !.performance = performanceOf(prevState.completedOrders \o upd.completed,
                                          upd.updated) ],
      seed |-> random.seed ]

withDepartments(prevState, arrivals, deltaTime, t, rnd, upd) ==
    newState(prevState, arrivals, deltaTime, t, upd,
             generateRandomEvents(prevState.session.settings.enableEvents,
                                  upd.updated, arrivals.seed, t, rnd))

\* The state returned by the updater of simulationStep when the session has
\* time left; arrivals is the result of generateNewOrders.
steppedState(prevState, arrivals, deltaTime, t, rnd) ==
    withDepartments(prevState, arrivals, deltaTime, t, rnd,
                    processDepartmentUpdates(prevState.departments, t, rnd))

\* ------------------------------------------------------------------- inputs
\* An id no order has, and a department id no department has
MissingOrderId == <<"ORD", 0>>
UnknownDepartmentId == Len(DepartmentIds) + 5

\* the order ids a command is tried with: the first MaxPick pending orders
\* and an id that is not pending
OrderChoices ==
    { gameState.pendingOrders[i].id :
        i \in 1..(IF Len(gameState.pendingOrders) < MaxPick
                  THEN Len(gameState.pendingOrders) ELSE MaxPick) }
    \cup {MissingOrderId}

ScheduleDepartments == {2, UnknownDepartmentId}
RouteChoices == { <<>>, <<4, 2>> }
RebalanceChoices ==
    { [sourceIds |-> <<>>, targetIds |-> <<2>>],
      [sourceIds |-> <<1>>, targetIds |-> <<>>],
      [sourceIds |-> <<1>>, targetIds |-> <<2>>] }

\* every order id found in a department queue
QueuedIds(departments) ==
    UNION { { departments[i].queue[k].id : k \in 1..Len(departments[i].queue) } :
            i \in 1..Len(departments) }

\* --------------------------------------------------------------- bookkeeping
Contents(gs) ==
    [ pendingOrders |-> gs.pendingOrders,
      queues |-> [ i \in 1..Len(gs.departments) |->
                     [id |-> gs.departments[i].id, queue |-> gs.departments[i].queue] ] ]

AllIdle(departments) ==
    \A i \in 1..Len(departments) :
        departments[i].queue = <<>> /\ departments[i].inProcess = <<>>

RECURSIVE RouteTicks(_, _)
RouteTicks(route, departments) ==
    IF route = <<>> THEN 0
    ELSE LET i == DeptIndex(departments, Head(route))
             minutes == IF i = 0 THEN 0
                        ELSE SeqSum([ k \in 1..Len(departments[i].operations) |->
                                        departments[i].operations[k].duration ])
         IN minutes * 60 + RouteTicks(Tail(route), departments)

CanCommand == ~faulted /\ nCmds < limits.cmds /\ nTicks <= limits.cmdWindow

\* what every command does besides its own effect: commands take no time
Command(trk) ==
    /\ nCmds' = nCmds + 1
    /\ UNCHANGED << lastUpdateTime, now, faulted, nTicks, limits >>
    /\ track' = trk

Trk(name, orderId) == [NoTrack EXCEPT !.cmd = name, !.orderId = orderId]

\* ----------------------------------------------------------- recordDecision
\* ids and descriptions of decisions are not part of the model; newState is
\* <<>> for a decision object without the property and <<state>> otherwise

\* A variant of recordDecision that stores the state it is applied to as the
\* decision's newState.
recordDecision_WithNewState(gs, orderId, previousState) ==
    LET keep == IF currentDecisionIndex + 1 < Len(gs.decisions)
                THEN currentDecisionIndex + 1 ELSE Len(gs.decisions)
        decision == [ type |-> "order-release", timestamp |-> now, orderId |-> orderId,
                      previousState |-> previousState, newState |-> <<gs>>,
                      canUndo |-> TRUE ]
    IN [gs EXCEPT !.decisions = Append(SubSeq(gs.decisions, 1, keep), decision)]

recordDecision(gs, orderId, previousState) ==
    LET keep == IF currentDecisionIndex + 1 < Len(gs.decisions)
                THEN currentDecisionIndex + 1 ELSE Len(gs.decisions)
        decision == [ type |-> "order-release", timestamp |-> now, orderId |-> orderId,
                      previousState |-> previousState, newState |-> <<>>,
                      canUndo |-> TRUE ]
    IN [gs EXCEPT !.decisions = Append(SubSeq(gs.decisions, 1, keep), decision)]

\* ------------------------------------------------------ startGame, pauseGame
startGame ==
    /\ CanCommand
    /\ gameState' =
         IF gameState.session.status = "setup"
         THEN [gameState EXCEPT !.session.status = "running", !.session.startTime = now]
         ELSE IF gameState.session.status = "paused"
         THEN [gameState EXCEPT !.session.status = "running"]
         ELSE gameState
    /\ isRunning' = TRUE
    /\ UNCHANGED << currentDecisionIndex, rngSeed >>
    /\ Command([Trk("start", MissingOrderId) EXCEPT !.idle = track.idle])

pauseGame ==
    /\ CanCommand
    /\ gameState' = [gameState EXCEPT !.session.status = "paused"]
    /\ isRunning' = FALSE
    /\ UNCHANGED << currentDecisionIndex, rngSeed >>
    /\ Command([Trk("pause", MissingOrderId) EXCEPT !.idle = track.idle])

\* ---------------------------------------------------------------- resetGame
resetGame ==
    /\ CanCommand
    /\ isRunning' = FALSE
    /\ gameState' = initializeGameState(gameState.session.settings, now)
    /\ rngSeed' = hashCode(gameState.session.settings.randomSeed)
    /\ UNCHANGED currentDecisionIndex
    /\ Command(Trk("reset", MissingOrderId))

\* ------------------------------------------------------------- releaseOrder
\* A variant of releasedState that opens the first timestamp span at the
\* release.
releasedState_OpensSpan(prev, orderId) ==
    LET orderIndex == FindIndex([ix \in 1..Len(prev.pendingOrders) |-> prev.pendingOrders[ix].id = orderId])
        order == prev.pendingOrders[orderIndex]
        firstDeptId == IF order.route = <<>> THEN NoValue ELSE order.route[1]
        updatedOrder == [ order EXCEPT
                            !.currentStepIndex = 0,
                            !.currentDepartment = firstDeptId,
                            !.status = "queued",
                            !.timestamps = Append(@, [ deptId |-> firstDeptId,
                                                       start |-> now, end |-> NoValue ]) ]
    IN [ prev EXCEPT
           !.departments = [ i \in 1..Len(prev.departments) |->
               IF prev.departments[i].id = firstDeptId
               THEN [prev.departments[i] EXCEPT !.queue = Append(@, updatedOrder)]
               ELSE prev.departments[i] ],
           !.pendingOrders = FilterByIndex(prev.pendingOrders, {i \in 1..Len(prev.pendingOrders) : i # orderIndex}) ]

releasedState(prev, orderId) ==
    LET orderIndex == FindIndex([ix \in 1..Len(prev.pendingOrders) |-> prev.pendingOrders[ix].id = orderId])
        order == prev.pendingOrders[orderIndex]
        \* order.route[0]
        firstDeptId == IF order.route = <<>> THEN NoValue ELSE order.route[1]
        updatedOrder == [ order EXCEPT !.currentStepIndex = 0,
                                       !.currentDepartment = firstDeptId,
                                       !.status = "queued" ]
    IN [ prev EXCEPT
           !.departments = [ i \in 1..Len(prev.departments) |->
               IF prev.departments[i].id = firstDeptId
               THEN [prev.departments[i] EXCEPT !.queue = Append(@, updatedOrder)]
               ELSE prev.departments[i] ],
           !.pendingOrders = FilterByIndex(prev.pendingOrders, {i \in 1..Len(prev.pendingOrders) : i # orderIndex}) ]

\* A variant of CanRelease without the test of the route.
CanRelease_AnyRoute(gs, orderId) ==
    FindIndex([ix \in 1..Len(gs.pendingOrders) |-> gs.pendingOrders[ix].id = orderId]) # 0

\* the two early returns of releaseOrder
CanRelease(gs, orderId) ==
    LET orderIndex == FindIndex([ix \in 1..Len(gs.pendingOrders) |-> gs.pendingOrders[ix].id = orderId])
    IN orderIndex # 0 /\ gs.pendingOrders[orderIndex].route # <<>>

releaseOrder ==
    /\ CanCommand
    /\ \E orderId \in OrderChoices :
         LET order == gameState.pendingOrders[
                          FindIndex([ix \in 1..Len(gameState.pendingOrders) |-> gameState.pendingOrders[ix].id = orderId])]
         IN IF CanRelease(gameState, orderId)
            THEN /\ gameState' =
                      recordDecision(releasedState(gameState, orderId), orderId,
                                     [ departments |-> gameState.departments,
                                       pendingOrders |-> gameState.pendingOrders ])
                 /\ currentDecisionIndex' = currentDecisionIndex + 1
                 /\ Command([ Trk("release", orderId) EXCEPT
                      !.chain = "releasing",
                      !.n = IF track.chain = "releasing" THEN track.n + 1 ELSE 1,
                      !.base = IF track.chain = "releasing" THEN track.base
                               ELSE Contents(gameState),
                      !.idle = IF AllIdle(gameState.departments)
                               THEN << [ id |-> orderId, at |-> nTicks,
                                         ticks |-> RouteTicks(order.route,
                                                              gameState.departments) ] >>
                               ELSE <<>> ])
            ELSE /\ UNCHANGED << gameState, currentDecisionIndex >>
                 /\ Command(Trk("release", orderId))
    /\ UNCHANGED << isRunning, rngSeed >>

\* --------------------------------------- undo, redo, clearDecisionHistory
\* {...prev, ...decision.previousState}: a release captured departments and
\* pendingOrders, the other commands captured every field of the state
restoredState(prev, previousState) ==
    IF DOMAIN previousState = DOMAIN prev THEN previousState
    ELSE [ prev EXCEPT !.departments = previousState.departments,
                       !.pendingOrders = previousState.pendingOrders ]

\* decisions[currentDecisionIndex] is undefined when the cursor is beyond the
\* log, and reading its canUndo throws: the handler ends with nothing changed
undoLastDecision ==
    /\ CanCommand
    /\ LET decisions == gameState.decisions
           applies == /\ currentDecisionIndex >= 0
                      /\ Len(decisions) > 0
                      /\ currentDecisionIndex < Len(decisions)
                      /\ decisions[currentDecisionIndex + 1].canUndo
       IN IF applies
          THEN /\ gameState' =
                    restoredState(gameState, decisions[currentDecisionIndex + 1].previousState)
               /\ currentDecisionIndex' = currentDecisionIndex - 1
          ELSE UNCHANGED << gameState, currentDecisionIndex >>
    /\ Command(IF track.chain \in {"releasing", "undoing"} /\ track.n > 0
               THEN [ Trk("undo", MissingOrderId) EXCEPT
                        !.chain = "undoing", !.n = track.n - 1, !.base = track.base ]
               ELSE Trk("undo", MissingOrderId))
    /\ UNCHANGED << isRunning, rngSeed >>

\* {...prev, ...nextDecision.newState} when the decision after the cursor has
\* a newState; track.arg keeps the cursor and the length of the log the redo
\* found
redoLastDecision ==
    /\ CanCommand
    /\ LET decisions == gameState.decisions
           applies == /\ currentDecisionIndex < Len(decisions) - 1
                      /\ decisions[currentDecisionIndex + 2].newState # <<>>
       IN IF applies
          THEN /\ gameState' =
                    restoredState(gameState, decisions[currentDecisionIndex + 2].newState[1])
               /\ currentDecisionIndex' = currentDecisionIndex + 1
          ELSE UNCHANGED << gameState, currentDecisionIndex >>
    /\ UNCHANGED << isRunning, rngSeed >>
    /\ Command([ Trk("redo", MissingOrderId) EXCEPT
                   !.arg = << currentDecisionIndex, Len(gameState.decisions) >> ])

\* A variant of clearedState that empties the event log as well.
clearedState_DropsEvents(prev) == [prev EXCEPT !.decisions = <<>>, !.gameEvents = <<>>]

\* {...prev, decisions: []}
clearedState(prev) == [prev EXCEPT !.decisions = <<>>]

\* track.arg keeps the length of the log that was cleared
clearDecisionHistory ==
    /\ CanCommand
    /\ gameState' = clearedState(gameState)
    /\ currentDecisionIndex' = -1
    /\ UNCHANGED << isRunning, rngSeed >>
    /\ Command([Trk("clear", MissingOrderId) EXCEPT !.arg = <<Len(gameState.decisions)>>])

\* ------------------------------------------------------- optimizeOrderRoute
routedState(prev, orderId, newRoute) ==
    LET pendingIndex == FindIndex([ix \in 1..Len(prev.pendingOrders) |-> prev.pendingOrders[ix].id = orderId])
        inDepartment(dept) ==
            LET queueIndex == FindIndex([ix \in 1..Len(dept.queue) |-> dept.queue[ix].id = orderId])
            IN IF queueIndex # 0
               THEN [dept EXCEPT !.queue[queueIndex].route = newRoute]
               ELSE IF dept.inProcess # <<>> /\ dept.inProcess[1].id = orderId
               THEN [dept EXCEPT !.inProcess[1].route = newRoute]
               ELSE dept
    IN IF pendingIndex # 0
       THEN [prev EXCEPT !.pendingOrders[pendingIndex].route = newRoute]
       ELSE [ prev EXCEPT !.departments =
                [ i \in 1..Len(prev.departments) |-> inDepartment(prev.departments[i]) ] ]

optimizeOrderRoute ==
    /\ CanCommand
    /\ \E orderId \in OrderChoices, newRoute \in RouteChoices :
         /\ gameState' = recordDecision(routedState(gameState, orderId, newRoute),
                                        orderId, gameState)
         /\ Command(Trk("optimize", orderId))
    /\ currentDecisionIndex' = currentDecisionIndex + 1
    /\ UNCHANGED << isRunning, rngSeed >>

\* ------------------------------------------------------------ scheduleOrder
scheduledState(prev, orderId, departmentId, scheduledTime) ==
    LET orderIndex == FindIndex([ix \in 1..Len(prev.pendingOrders) |-> prev.pendingOrders[ix].id = orderId])
        updatedOrder == [ prev.pendingOrders[orderIndex] EXCEPT
                            !.currentStepIndex = 0,
                            !.currentDepartment = departmentId,
                            !.status = "queued",
                            !.scheduledStartTime = scheduledTime ]
    IN IF orderIndex = 0 THEN prev
       ELSE [ prev EXCEPT
                !.pendingOrders = FilterByIndex(prev.pendingOrders, {i \in 1..Len(prev.pendingOrders) : i # orderIndex}),
                !.departments = [ i \in 1..Len(prev.departments) |->
                    IF prev.departments[i].id = departmentId
                    THEN [prev.departments[i] EXCEPT !.queue = Append(@, updatedOrder)]
                    ELSE prev.departments[i] ] ]

scheduleOrder ==
    /\ CanCommand
    /\ \E orderId \in OrderChoices, departmentId \in ScheduleDepartments :
         /\ gameState' = recordDecision(scheduledState(gameState, orderId, departmentId, now),
                                        orderId, gameState)
         /\ Command([Trk("schedule", orderId) EXCEPT !.arg = <<departmentId>>])
    /\ currentDecisionIndex' = currentDecisionIndex + 1
    /\ UNCHANGED << isRunning, rngSeed >>

\* -------------------------------------------------------- rebalanceWorkload
Includes(s, x) == \E i \in 1..Len(s) : s[i] = x
IndexOf(s, x) == FindIndex([ix \in 1..Len(s) |-> s[ix] = x])

RECURSIVE Concat(_)
Concat(seqs) == IF seqs = <<>> THEN <<>> ELSE Head(seqs) \o Concat(Tail(seqs))

rebalancedState(prev, sourceIds, targetIds, ordersToMove) ==
    LET moving(order) == order.id \in ordersToMove
        updatedDepartments ==
            [ i \in 1..Len(prev.departments) |->
                IF Includes(sourceIds, prev.departments[i].id)
                THEN [prev.departments[i] EXCEPT !.queue = SelectSeq(@, LAMBDA o : ~moving(o))]
                ELSE prev.departments[i] ]
        movedOrders ==
            Concat([ i \in 1..Len(prev.departments) |->
                IF Includes(sourceIds, prev.departments[i].id)
                THEN SelectSeq(prev.departments[i].queue, moving)
                ELSE <<>> ])
        ordersFor(targetIndex) ==
            FilterByIndex(movedOrders, {index \in 1..Len(movedOrders) : (index - 1) % Len(targetIds) = targetIndex - 1})
    IN [ prev EXCEPT !.departments =
           [ i \in 1..Len(updatedDepartments) |->
               IF Includes(targetIds, updatedDepartments[i].id)
               THEN [ updatedDepartments[i] EXCEPT
                        !.queue = @ \o ordersFor(IndexOf(targetIds, updatedDepartments[i].id)) ]
               ELSE updatedDepartments[i] ] ]

rebalanceWorkload ==
    /\ CanCommand
    /\ \E choice_ \in RebalanceChoices :
         /\ gameState' =
              recordDecision(rebalancedState(gameState, choice_.sourceIds, choice_.targetIds,
                                             QueuedIds(gameState.departments)),
                             MissingOrderId, gameState)
         /\ Command([ Trk("rebalance", MissingOrderId) EXCEPT
                        !.arg = << choice_.sourceIds, choice_.targetIds >> ])
    /\ currentDecisionIndex' = currentDecisionIndex + 1
    /\ UNCHANGED << isRunning, rngSeed >>

\* ----------------------------------------------------- the periodic driver
\* A variant of completedState that counts the tick's second as elapsed.
completedState_Advances(prevState, t) ==
    [ prevState EXCEPT !.session.status = "completed", !.session.endTime = t,
                       !.session.elapsedTime = @ + TickMs ]

\* "Check if game should end": what the updater returns when it should
completedState(prevState, t) ==
    [ prevState EXCEPT !.session.status = "completed", !.session.endTime = t ]

\* One firing of the interval: simulationStep, and the auto-pause effect when
\* the session has just completed.  The interval only exists while isRunning
\* and the session is running.
Tick ==
    /\ ~faulted
    /\ isRunning /\ gameState.session.status = "running"
    /\ nTicks < limits.ticks
    /\ now' = now + TickMs
    /\ lastUpdateTime' = now'
    /\ nTicks' = nTicks + 1
    /\ \E rnd \in limits.random \X limits.random :
       \E arrivals \in {generateNewOrders(gameState, rngSeed, now')} :
       \E stepped \in {steppedState(gameState, arrivals, now' - lastUpdateTime, now', rnd)} :
            IF gameState.session.elapsedTime >= gameState.session.duration
            THEN /\ gameState' = completedState(gameState, now')
                 /\ isRunning' = FALSE
                 /\ UNCHANGED << rngSeed, faulted >>
            ELSE IF arrivals.threw
            THEN /\ faulted' = TRUE
                 /\ rngSeed' = arrivals.seed
                 /\ UNCHANGED << gameState, isRunning >>
            ELSE /\ gameState' = stepped.state
                 /\ rngSeed' = stepped.seed
                 /\ UNCHANGED << isRunning, faulted >>
    /\ track' = [Trk("tick", MissingOrderId) EXCEPT !.idle = track.idle]
    /\ UNCHANGED << currentDecisionIndex, nCmds, limits >>

\* Wall-clock time passing while the interval does not exist (the session is
\* being set up, is paused or is over): lastUpdateTime.current is only
\* written by simulationStep, so the first tick after it sees it all as
\* deltaTime.
Wait ==
    /\ ~faulted
    /\ ~(isRunning /\ gameState.session.status = "running")
    /\ now < MaxWaitMinutes * MsPerMinute
    /\ now' = now + MaxWaitMinutes * MsPerMinute
    /\ track' = [Trk("wait", MissingOrderId) EXCEPT !.idle = track.idle]
    /\ UNCHANGED << gameState, isRunning, currentDecisionIndex, lastUpdateTime, rngSeed,
                    faulted, nTicks, nCmds, limits >>

\* ----------------------------------------------------------- specifications
MainLimits ==
    [ ticks |-> MaxTicks, cmds |-> MaxCmds, cmdWindow |-> MaxTicks, random |-> {0, 1} ]

Init == InitWith(SettingsChoices, MainLimits)

Next ==
    \/ Tick
    \/ startGame
    \/ pauseGame
    \/ resetGame
    \/ releaseOrder
    \/ undoLastDecision
    \/ redoLastDecision
    \/ clearDecisionHistory
    \/ optimizeOrderRoute
    \/ scheduleOrder
    \/ rebalanceWorkload

Spec == Init /\ [][Next]_vars

\* A decision taken before the tick that completes an order, and undone after
UndoLimits ==
    [ ticks |-> UndoTicks, cmds |-> UndoCmds, cmdWindow |-> UndoTicks, random |-> {0, 1} ]

InitUndo == InitWith({DrainedSettings}, UndoLimits)

SpecUndo == InitUndo /\ [][Next]_vars

\* Two engines side by side, from a seed whose first tick completes an order
DetLimits ==
    [ ticks |-> DetTicks, cmds |-> DetCmds, cmdWindow |-> DetTicks, random |-> {0, 1} ]

InitDet == InitWith({DrainedSettings}, DetLimits)

SpecDet == InitDet /\ [][Next]_vars

\* Long runs: the session is started, an order may be released at the start
\* or after the first tick, and the driver ticks
RunLimits ==
    [ ticks |-> RunTicks, cmds |-> RunCmds, cmdWindow |-> RunCmdWindow, random |-> {0} ]

InitRun == InitWith({DrainedSettings, HandOffSettings}, RunLimits)

NextRun ==
    \/ Tick
    \/ startGame
    \/ releaseOrder

SpecRun == InitRun /\ [][NextRun]_vars

\* The same long runs from the tutorial scenario, whose work in progress
\* holds an order with a repeated department in its route
InitTutorialRun == InitWith({TutorialSettings}, RunLimits)

SpecTutorialRun == InitTutorialRun /\ [][NextRun]_vars

\* The same long runs from a scenario in which a released order waits at a
\* department that receives a hand-off
InitQueuedRun == InitWith({QueuedSettings}, RunLimits)

SpecQueuedRun == InitQueuedRun /\ [][NextRun]_vars

\* The same long runs from the rush-mode scenario
InitRush == InitWith({RushSettings}, RunLimits)

SpecRush == InitRush /\ [][NextRun]_vars

\* The same long runs from a scenario with an early equipment failure
InitFailure == InitWith({FailureSettings}, RunLimits)

SpecFailure == InitFailure /\ [][NextRun]_vars

\* The same long runs from a scenario whose first tick completes one order
\* late and one on time
InitMixedRun == InitWith({MixedSettings}, RunLimits)

SpecMixedRun == InitMixedRun /\ [][NextRun]_vars

\* The same long runs from a scenario whose first pending order visits a
\* department twice in a row.  The interval fires for as long as it exists:
\* Tick is the only action that counts a tick and it can be taken whenever
\* its guard holds, so the fairness condition is put on the counting step.
InitRepeat == InitWith({RepeatSettings}, RunLimits)

intervalFires ==
    /\ ~faulted
    /\ isRunning /\ gameState.session.status = "running"
    /\ nTicks < limits.ticks
    /\ nTicks' = nTicks + 1

SpecRepeat == InitRepeat /\ [][NextRun]_vars /\ WF_nTicks(intervalFires)

\* The session commands and the driver, with time passing before the start
\* and during a pause: the session of the tutorial lasts 15 minutes
SessionLimits ==
    [ ticks |-> SessionTicks, cmds |-> SessionCmds, cmdWindow |-> SessionTicks,
      random |-> {0} ]

InitSession == InitWith({TutorialSettings}, SessionLimits)

NextSession ==
    \/ Tick
    \/ Wait
    \/ startGame
    \/ pauseGame
    \/ resetGame

SpecSession == InitSession /\ [][NextSession]_vars

\* The SLA classification on its own: an order with dates in 0..SlaSpan, the
\* clock at a time in 0..SlaSpan, and one step that classifies the order
\* with the engine's updateSLAStatus and with the utility getSLAStatus.
InitSLA ==
    /\ gameState = initializeGameState(TutorialSettings, 0)
    /\ isRunning = FALSE
    /\ currentDecisionIndex = -1
    /\ lastUpdateTime = 0
    /\ rngSeed = hashCode(SeedTutorial)
    /\ now \in 0..SlaSpan
    /\ faulted = FALSE
    /\ nTicks = 0
    /\ nCmds = 0
    /\ limits = MainLimits
    /\ \E createdAt \in 0..SlaSpan, dueDate \in 0..SlaSpan :
         track = [ cmd |-> "sla-input",
                   order |-> NewOrder(OrderId("ORD", 1), <<1>>, createdAt, dueDate),
                   engine |-> "", utility |-> "" ]

classifySLA ==
    /\ track.cmd = "sla-input"
    /\ track' = [ track EXCEPT !.cmd = "sla",
                               !.engine = updateSLAStatus(track.order, now).slaStatus,
                               !.utility = getSLAStatus(track.order, now) ]
    /\ UNCHANGED << gameState, isRunning, currentDecisionIndex, lastUpdateTime, rngSeed,
                    now, faulted, nTicks, nCmds, limits >>

NextSLA == classifySLA

SpecSLA == InitSLA /\ [][NextSLA]_vars

\* The event log on its own: a log of 0..EventCap events, up to LogEvents
\* order-completed events and up to LogEvents random events of one tick, and
\* one step that appends them as simulationStep does.  An event of the log
\* is numbered -k, the k-th order-completed event 100 + k and the k-th random
\* event 200 + k.
logEvent(type, n) ==
    [ id |-> <<n, NoValue, NoValue>>, type |-> type, severity |-> "info",
      orderId |-> <<"", 0>>, departmentId |-> NoValue ]

InitLog ==
    /\ gameState = initializeGameState(TutorialSettings, 0)
    /\ isRunning = FALSE
    /\ currentDecisionIndex = -1
    /\ lastUpdateTime = 0
    /\ rngSeed = hashCode(SeedTutorial)
    /\ now = 0
    /\ faulted = FALSE
    /\ nTicks = 0
    /\ nCmds = 0
    /\ limits = MainLimits
    /\ \E n \in 0..EventCap, c \in 0..LogEvents, r \in 0..LogEvents :
         track = [ cmd |-> "log-input",
                   gameEvents |-> [ k \in 1..n |-> logEvent("order-generated", 0 - k) ],
                   events |-> [ k \in 1..c |-> logEvent("order-completed", 100 + k) ],
                   randomEvents |-> [ k \in 1..r |-> logEvent("rush-order", 200 + k) ],
                   result |-> <<>> ]

appendToLog ==
    /\ track.cmd = "log-input"
    /\ track' = [ track EXCEPT
                    !.cmd = "log",
                    !.result = appendEvents(track.gameEvents, track.events,
                                            track.randomEvents) ]
    /\ UNCHANGED << gameState, isRunning, currentDecisionIndex, lastUpdateTime, rngSeed,
                    now, faulted, nTicks, nCmds, limits >>

NextLog == appendToLog

SpecLog == InitLog /\ [][NextLog]_vars

\* generateRandomRoute on its own: a stream state, a complexity level (one of
\* the three tiers, or a string that is none of them), and one step that
\* generates a route.
ComplexityLevels == {"beginner", "intermediate", "advanced", "expert"}

InitRoute ==
    /\ gameState = initializeGameState(TutorialSettings, 0)
    /\ isRunning = FALSE
    /\ currentDecisionIndex = -1
    /\ lastUpdateTime = 0
    /\ rngSeed \in 0..(LcgMod - 1)
    /\ now = 0
    /\ faulted = FALSE
    /\ nTicks = 0
    /\ nCmds = 0
    /\ limits = MainLimits
    /\ \E complexityLevel \in ComplexityLevels :
         track = [ cmd |-> "route-input", complexityLevel |-> complexityLevel,
                   route |-> <<>> ]

drawRoute ==
    /\ track.cmd = "route-input"
    /\ \E r \in {generateRandomRoute(rngSeed, track.complexityLevel)} :
         /\ track' = [track EXCEPT !.cmd = "route", !.route = r.route]
         /\ rngSeed' = r.seed
    /\ UNCHANGED << gameState, isRunning, currentDecisionIndex, lastUpdateTime,
                    now, faulted, nTicks, nCmds, limits >>

NextRoute == drawRoute

SpecRoute == InitRoute /\ [][NextRoute]_vars

\* The route selection of generateNewOrders on its own: settings of each
\* tier and generation rate, with enableAdvancedRouting unset or false, a
\* stream state whose next draw is below the generation chance, and one step
\* that draws the arrival and generates the route of the new order.
RoutingSettings ==
    { [ sessionDuration |-> 15, orderGenerationRate |-> rate, complexityLevel |-> tier,
        randomSeed |-> SeedTutorial, enableEvents |-> FALSE, gameSpeed |-> 1 ] :
        rate \in {"low", "medium", "high"},
        tier \in {"beginner", "intermediate", "advanced"} }
    \cup
    { [ sessionDuration |-> 15, orderGenerationRate |-> rate, complexityLevel |-> tier,
        randomSeed |-> SeedTutorial, enableEvents |-> FALSE, gameSpeed |-> 1,
        enableAdvancedRouting |-> FALSE ] :
        rate \in {"low", "medium", "high"},
        tier \in {"beginner", "intermediate", "advanced"} }

InitNewRoute ==
    /\ gameState = initializeGameState(TutorialSettings, 0)
    /\ isRunning = FALSE
    /\ currentDecisionIndex = -1
    /\ lastUpdateTime = 0
    /\ now = 0
    /\ faulted = FALSE
    /\ nTicks = 0
    /\ nCmds = 0
    /\ limits = MainLimits
    /\ \E settings \in RoutingSettings :
         /\ track = [cmd |-> "arrival-input", settings |-> settings, route |-> <<>>]
         /\ rngSeed \in { s \in 0..(LcgMod - 1) :
                             Below(next(s), generationChance(settings.orderGenerationRate),
                                   1000) }

routeOfArrival ==
    /\ track.cmd = "arrival-input"
    /\ \E r \in {newOrderRoute(track.settings, gameState.departments, next(rngSeed))} :
         /\ track' = [track EXCEPT !.cmd = "arrival", !.route = r.route]
         /\ rngSeed' = r.seed
    /\ UNCHANGED << gameState, isRunning, currentDecisionIndex, lastUpdateTime,
                    now, faulted, nTicks, nCmds, limits >>

NextNewRoute == routeOfArrival

SpecNewRoute == InitNewRoute /\ [][NextNewRoute]_vars

\* ================================================================== claims
OrdersInSystem(gs) ==
    Len(gs.pendingOrders)
    + SeqSum([ i \in 1..Len(gs.departments) |-> Len(gs.departments[i].queue) ])
    + SeqSum([ i \in 1..Len(gs.departments) |->
                 IF gs.departments[i].inProcess # <<>> THEN 1 ELSE 0 ])
    + Len(gs.completedOrders) + Len(gs.rejectedOrders)

\* C1: order conservation.  In the initial state and after every tick, with
\* any commands in between, the pending orders, the orders queued at or in
\* process in a department, the completed and the rejected orders together
\* number totalOrdersGenerated.
C1_Conservation == OrdersInSystem(gameState) = gameState.totalOrdersGenerated

\* C2: undo restores exactly.  After n successive releases of pending orders
\* with a non-empty route followed by n undos, with nothing in between, the
\* pending orders and every department's queue are what they were before the
\* first release.
C2_UndoRestores ==
    (track.chain = "undoing" /\ track.n = 0) => Contents(gameState) = track.base

\* C3: determinism.  Two engines constructed with the same seed and settings
\* and driven by the same ticks and commands have identical event logs, the
\* event ids included.
C3_Determinism ==
    \A i \in 1..Len(gameState.gameEvents) :
        gameState.gameEvents[i].id[2] = gameState.gameEvents[i].id[3]

\* C4: SLA classification.  The status is overdue iff dueDate < now; else
\* at-risk iff (now - createdAt) / (dueDate - createdAt) is strictly greater
\* than 0.8; else on-track, so a progress of exactly 0.8 is on-track.  The
\* engine's updateSLAStatus and the utility getSLAStatus agree on every input.
C4_SlaClassification ==
    track.cmd = "sla" =>
        LET elapsed == now - track.order.createdAt
            totalTime == track.order.dueDate - track.order.createdAt
            \* elapsed / totalTime > 4 / 5 in the rationals
            above == \/ totalTime > 0 /\ 5 * elapsed > 4 * totalTime
                     \/ totalTime < 0 /\ 5 * elapsed < 4 * totalTime
        IN /\ (track.engine = "overdue") <=> (track.order.dueDate < now)
           /\ (track.engine = "at-risk") <=> (track.order.dueDate >= now /\ above)
           /\ (track.engine = "on-track") <=> (track.order.dueDate >= now /\ ~above)
           /\ track.utility = track.engine

\* an order at exactly 80 % of its time has been classified on-track
C4_BoundaryClassified ==
    /\ track.cmd = "sla"
    /\ track.order.dueDate > track.order.createdAt
    /\ 5 * (now - track.order.createdAt)
         = 4 * (track.order.dueDate - track.order.createdAt)
    /\ track.engine = "on-track"

\* C5: end-to-end traversal.  An order released while every department is
\* idle, with a route of total processing time T and a due date later than
\* that, is in completedOrders with status completed-on-time after exactly
\* T ticks (60 per minute): hand-offs add no ticks.
C5_Traversal ==
    \A k \in 1..Len(track.idle) :
        nTicks = track.idle[k].at + track.idle[k].ticks =>
            \E i \in 1..Len(gameState.completedOrders) :
                /\ gameState.completedOrders[i].id = track.idle[k].id
                /\ gameState.completedOrders[i].status = "completed-on-time"

\* C6: operation advancement.  In a department with operations of d0, d1, ...
\* minutes, an order that began operation 0 is still at operation 0 before d0
\* minutes of ticks, and after exactly d0 minutes of ticks it is at operation
\* 1 with the full duration d1 remaining, its progress entry for operation 0
\* completed with an end time and a new entry for operation 1 not completed.
C6_OperationAdvance ==
    \A i \in 1..Len(gameState.departments) :
        LET dept == gameState.departments[i]
            order == dept.inProcess[1]
            first == order.operationProgress[1]
            since == now - first.startTime
        IN ( /\ Len(dept.operations) >= 2
             /\ dept.inProcess # <<>>
             /\ order.operationProgress # <<>>
             /\ first.operationId = dept.operations[1].id
             /\ since <= dept.operations[1].duration * MsPerMinute )
           => IF since < dept.operations[1].duration * MsPerMinute
              THEN order.currentOperationIndex = 0
              ELSE /\ order.currentOperationIndex = 1
                   /\ order.processingTimeRemaining = dept.operations[2].duration * MsPerMinute
                   /\ first.completed /\ first.endTime # NoValue
                   /\ Len(order.operationProgress) = 2
                   /\ ~order.operationProgress[2].completed

\* the order a release is about, in the state before the release
PendingOrder(gs, orderId) ==
    gs.pendingOrders[FindIndex([ix \in 1..Len(gs.pendingOrders) |-> gs.pendingOrders[ix].id = orderId])]

Releasable(gs, orderId) ==
    /\ \E i \in 1..Len(gs.pendingOrders) : gs.pendingOrders[i].id = orderId
    /\ PendingOrder(gs, orderId).route # <<>>
    /\ DeptIndex(gs.departments, PendingOrder(gs, orderId).route[1]) # 0

\* what a release does to the collections, the released order entering the
\* queue as `queued`
ReleaseMoves(gs, gs2, orderId, queued) ==
    LET order == PendingOrder(gs, orderId)
    IN /\ gs2.pendingOrders = SelectSeq(gs.pendingOrders, LAMBDA o : o.id # orderId)
       /\ Len(gs2.departments) = Len(gs.departments)
       /\ \A i \in 1..Len(gs.departments) :
            gs2.departments[i] =
              IF gs.departments[i].id = order.route[1]
              THEN [gs.departments[i] EXCEPT !.queue = Append(@, queued)]
              ELSE gs.departments[i]
       /\ gs2.completedOrders = gs.completedOrders
       /\ gs2.rejectedOrders = gs.rejectedOrders

C8_ReleaseRefused ==
    [][ ( /\ track'.cmd = "release"
          /\ \/ \A i \in 1..Len(gameState.pendingOrders) :
                  gameState.pendingOrders[i].id # track'.orderId
             \/ PendingOrder(gameState, track'.orderId).route = <<>> )
        => /\ gameState' = gameState
           /\ currentDecisionIndex' = currentDecisionIndex ]_vars

\* a release has just been tried on a pending order whose route is empty
C8_EmptyRouteTried ==
    /\ track.cmd = "release"
    /\ \E i \in 1..Len(gameState.pendingOrders) :
         /\ gameState.pendingOrders[i].id = track.orderId
         /\ gameState.pendingOrders[i].route = <<>>

\* C9: scheduleOrder with a departmentId that matches no department returns
\* the unmodified state: the order stays pending, no department changes and
\* no decision is appended.
C9_ScheduleUnknownDepartment ==
    [][ ( /\ track'.cmd = "schedule"
          /\ DeptIndex(gameState.departments, track'.arg[1]) = 0 )
        => gameState' = gameState ]_vars

\* C10: rebalanceWorkload with an empty source list or an empty target list
\* returns the unmodified state: no order leaves a queue, no queue gains an
\* order and no decision is appended.
C10_RebalanceEmptyList ==
    [][ ( /\ track'.cmd = "rebalance"
          /\ (track'.arg[1] = <<>> \/ track'.arg[2] = <<>>) )
        => gameState' = gameState ]_vars

\* C11: session lifecycle.  session.status changes only from setup to running
\* by a start that stamps startTime, from paused to running by a start, from
\* running to paused by a pause, from running to completed by a tick taken
\* with elapsedTime >= duration, and from anything to setup by a reset: a
\* pause in status setup or completed changes nothing, and completed stays
\* completed until a reset.
C11_Lifecycle ==
    [][ LET from == gameState.session.status
            to == gameState'.session.status
        IN from # to =>
             \/ /\ from = "setup" /\ to = "running" /\ track'.cmd = "start"
                /\ gameState'.session.startTime = now
             \/ from = "paused" /\ to = "running" /\ track'.cmd = "start"
             \/ from = "running" /\ to = "paused" /\ track'.cmd = "pause"
             \/ /\ from = "running" /\ to = "completed" /\ track'.cmd = "tick"
                /\ gameState.session.elapsedTime >= gameState.session.duration
             \/ to = "setup" /\ track'.cmd = "reset" ]_vars

\* C12: terminal tick.  A tick taken when session.elapsedTime >=
\* session.duration sets session.status to completed and leaves elapsedTime,
\* departments, pendingOrders, completedOrders, totalOrdersGenerated,
\* gameEvents, performance and the state of the random stream unchanged.
C12_TerminalTick ==
    [][ ( /\ track'.cmd = "tick"
          /\ gameState.session.elapsedTime >= gameState.session.duration )
        => /\ gameState'.session.status = "completed"
           /\ gameState'.session.elapsedTime = gameState.session.elapsedTime
           /\ gameState'.departments = gameState.departments
           /\ gameState'.pendingOrders = gameState.pendingOrders
           /\ gameState'.completedOrders = gameState.completedOrders
           /\ gameState'.totalOrdersGenerated = gameState.totalOrdersGenerated
           /\ gameState'.gameEvents = gameState.gameEvents
           /\ gameState'.performance = gameState.performance
           /\ rngSeed' = rngSeed ]_vars

\* a tick has just ended the session
C12_SessionEnded ==
    /\ track.cmd = "tick"
    /\ gameState.session.status = "completed"
    /\ gameState.session.endTime = now
    /\ gameState.session.elapsedTime >= gameState.session.duration

\* C13: reset is a full reinitialization.  From any reachable state resetGame
\* yields the state of a freshly constructed engine for the original
\* settings: session status setup with elapsedTime 0, the initial orders and
\* departments, an empty decision log with the decision cursor at -1,
\* ticking stopped, and the random stream reseeded from the configured seed.
C13_ResetReinitializes ==
    [][ track'.cmd = "reset" =>
          /\ gameState' = initializeGameState(gameState.session.settings, now)
          /\ gameState'.session.status = "setup"
          /\ gameState'.session.elapsedTime = 0
          /\ gameState'.decisions = <<>>
          /\ currentDecisionIndex' = -1
          /\ isRunning' = FALSE
          /\ rngSeed' = hashCode(gameState.session.settings.randomSeed) ]_vars

\* the state a command has produced, its change of the decision log aside
SameButDecisions(gs, gs2) == [gs2 EXCEPT !.decisions = gs.decisions] = gs

\* C14: a decision is appended exactly when a release, schedule, rebalance
\* or optimizeRoute command succeeds.  A command that is a no-op (order id
\* not found, nothing moved) appends no decision; a successful command
\* appends exactly one decision holding a snapshot of the prior state,
\* discards the entries above the old cursor, and leaves the cursor at the
\* index of the new last entry.
C14_DecisionOnSuccess ==
    [][ track'.cmd \in {"release", "schedule", "rebalance", "optimize"} =>
          IF SameButDecisions(gameState, gameState')
          THEN /\ gameState'.decisions = gameState.decisions
               /\ currentDecisionIndex' = currentDecisionIndex
          ELSE /\ currentDecisionIndex + 1 <= Len(gameState.decisions)
               /\ Len(gameState'.decisions) = currentDecisionIndex + 2
               /\ SubSeq(gameState'.decisions, 1, currentDecisionIndex + 1)
                    = SubSeq(gameState.decisions, 1, currentDecisionIndex + 1)
               /\ LET snapshot == Last(gameState'.decisions).previousState
                  IN \A field \in DOMAIN snapshot : snapshot[field] = gameState[field]
               /\ currentDecisionIndex' = Len(gameState'.decisions) - 1 ]_vars

\* C15: undoLastDecision with cursor >= 0 replaces exactly the fields
\* captured in decisions[cursor].previousState with their captured values and
\* decrements the cursor by exactly 1; with cursor = -1 it changes neither
\* the state nor the cursor.
C15_UndoRestoresSnapshot ==
    [][ track'.cmd = "undo" =>
          IF currentDecisionIndex >= 0
          THEN /\ currentDecisionIndex < Len(gameState.decisions)
               /\ LET snapshot ==
                          gameState.decisions[currentDecisionIndex + 1].previousState
                  IN \A field \in DOMAIN gameState :
                         gameState'[field] = IF field \in DOMAIN snapshot
                                             THEN snapshot[field] ELSE gameState[field]
               /\ currentDecisionIndex' = currentDecisionIndex - 1
          ELSE /\ gameState' = gameState
               /\ currentDecisionIndex' = currentDecisionIndex ]_vars

NoForwardSnapshot(gs) ==
    \A i \in 1..Len(gs.decisions) : gs.decisions[i].newState = <<>>

\* C16: redo is inert.  In every reachable state no decision of the log
\* carries a forward snapshot (newState), so redoLastDecision never changes
\* the state or the decision cursor, even when the cursor is below the index
\* of the last decision, as it is right after an undo.
C16_RedoInert ==
    [][ /\ NoForwardSnapshot(gameState)
        /\ NoForwardSnapshot(gameState')
        /\ track'.cmd = "redo" =>
             /\ gameState' = gameState
             /\ currentDecisionIndex' = currentDecisionIndex ]_vars

\* a redo has just been called with the cursor below the last decision
C16_RedoAfterUndo ==
    /\ track.cmd = "redo"
    /\ track.arg[2] > 0
    /\ track.arg[1] < track.arg[2] - 1
    /\ Len(gameState.decisions) = track.arg[2]

\* C17: clearDecisionHistory sets the decision log to empty and the decision
\* cursor to -1 and leaves every other field of the state (session,
\* departments, pendingOrders, completedOrders, rejectedOrders, gameEvents,
\* performance, totalOrdersGenerated) unchanged.
C17_ClearHistory ==
    [][ track'.cmd = "clear" =>
          /\ gameState'.decisions = <<>>
          /\ currentDecisionIndex' = -1
          /\ DOMAIN gameState' = DOMAIN gameState
          /\ \A field \in DOMAIN gameState \ {"decisions"} :
                 gameState'[field] = gameState[field] ]_vars

\* a log with decisions in it has just been cleared
C17_Cleared ==
    /\ track.cmd = "clear"
    /\ track.arg[1] > 0
    /\ gameState.decisions = <<>>
    /\ currentDecisionIndex = -1

\* the ids of the orders of a state, place by place
OrderIds(gs) ==
    [ i \in 1..Len(gs.pendingOrders) |-> gs.pendingOrders[i].id ]
    \o Concat([ i \in 1..Len(gs.departments) |->
                  [ k \in 1..Len(gs.departments[i].queue) |-> gs.departments[i].queue[k].id ]
                  \o [ k \in 1..Len(gs.departments[i].inProcess) |->
                         gs.departments[i].inProcess[k].id ] ])
    \o [ i \in 1..Len(gs.completedOrders) |-> gs.completedOrders[i].id ]
    \o [ i \in 1..Len(gs.rejectedOrders) |-> gs.rejectedOrders[i].id ]

\* C18: no duplication of orders.  In every reachable state no order id
\* occurs more than once across pendingOrders, the department queues, the
\* inProcess slots, completedOrders and rejectedOrders, also after a tick in
\* which an order finishes at a department and its next step is that same
\* department or a department not yet advanced in that tick.
C18_NoDuplication ==
    \A i, j \in 1..Len(OrderIds(gameState)) :
        OrderIds(gameState)[i] = OrderIds(gameState)[j] => i = j

\* every order held as pending, queued, in process or completed
OrdersHeld(gs) ==
    { gs.pendingOrders[k] : k \in 1..Len(gs.pendingOrders) }
    \cup UNION { { gs.departments[i].queue[k] : k \in 1..Len(gs.departments[i].queue) }
                 \cup { gs.departments[i].inProcess[k] :
                          k \in 1..Len(gs.departments[i].inProcess) } :
                 i \in 1..Len(gs.departments) }
    \cup { gs.completedOrders[k] : k \in 1..Len(gs.completedOrders) }

\* C19: the step index is valid.  In every reachable state every order,
\* pending, queued, in process or completed, has currentStepIndex = -1 or
\* 0 <= currentStepIndex < length(route), through ticks, release, schedule,
\* optimizeRoute and undo.
C19_StepIndexValid ==
    \A o \in OrdersHeld(gameState) :
        \/ o.currentStepIndex = -1
        \/ 0 <= o.currentStepIndex /\ o.currentStepIndex < Len(o.route)

\* the orders in the queue or the inProcess slot of a department
OrdersAt(dept) ==
    { dept.queue[k] : k \in 1..Len(dept.queue) }
    \cup { dept.inProcess[k] : k \in 1..Len(dept.inProcess) }

\* C20: location is consistent with the route position.  In every reachable
\* state every order in the queue or the inProcess slot of department d has
\* route[currentStepIndex] = d, and every pending order has
\* currentStepIndex = -1, through release, schedule, rebalance,
\* optimizeRoute, undo and ticks.
C20_LocationConsistent ==
    /\ \A i \in 1..Len(gameState.departments) :
         \A o \in OrdersAt(gameState.departments[i]) :
            /\ 0 <= o.currentStepIndex
            /\ o.currentStepIndex < Len(o.route)
            /\ o.route[o.currentStepIndex + 1] = gameState.departments[i].id
    /\ \A k \in 1..Len(gameState.pendingOrders) :
         gameState.pendingOrders[k].currentStepIndex = -1

\* C21: bounded event log.  gameEvents holds at most 50 events, and after a
\* tick it is the last 50 elements of the previous log followed by the
\* tick's order-completed events followed by its random events, in that
\* order.
C21_BoundedLog ==
    track.cmd = "log" =>
        LET all == [ k \in 1..(Len(track.gameEvents) + Len(track.events)
                               + Len(track.randomEvents)) |->
                       IF k <= Len(track.gameEvents) THEN track.gameEvents[k]
                       ELSE IF k <= Len(track.gameEvents) + Len(track.events)
                       THEN track.events[k - Len(track.gameEvents)]
                       ELSE track.randomEvents[k - Len(track.gameEvents)
                                                 - Len(track.events)] ]
            kept == IF Len(all) < 50 THEN Len(all) ELSE 50
        IN /\ Len(track.result) = kept
           /\ \A k \in 1..kept : track.result[k] = all[Len(all) - kept + k]

\* a full log received events of both kinds and was trimmed
C21_Trimmed ==
    /\ track.cmd = "log"
    /\ Len(track.gameEvents) = 50
    /\ track.events # <<>> /\ track.randomEvents # <<>>
    /\ Len(track.result) = 50
    /\ track.result[50] = Last(track.randomEvents)

\* C22: generateRandomRoute returns, for every stream state, a route of
\* length 2 or 3 for tier beginner, 3 to 5 for intermediate, 4 to 7 for
\* advanced and 4 for any other tier, and every element of the route is one
\* of the department ids 1..4.
C22_RouteLength ==
    track.cmd = "route" =>
        /\ track.complexityLevel = "beginner" => Len(track.route) \in {2, 3}
        /\ track.complexityLevel = "intermediate" => Len(track.route) \in {3, 4, 5}
        /\ track.complexityLevel = "advanced" => Len(track.route) \in {4, 5, 6, 7}
        /\ track.complexityLevel \notin {"beginner", "intermediate", "advanced"}
             => Len(track.route) = 4
        /\ \A k \in 1..Len(track.route) : track.route[k] \in {1, 2, 3, 4}

\* an advanced route of the greatest length, with a department repeated
C22_LongestRoute ==
    /\ track.cmd = "route"
    /\ track.complexityLevel = "advanced"
    /\ Len(track.route) = 7
    /\ \E k \in 1..6 : track.route[k] = track.route[k + 1]

\* C23: every order a tick generates has a route whose length is within the
\* bounds of the tier, 2 or 3 for a beginner session and 4 to 7 for an
\* advanced session, whichever generator the settings select.
C23_ArrivalRouteLength ==
    track.cmd = "arrival" =>
        /\ track.settings.complexityLevel = "beginner" => Len(track.route) \in {2, 3}
        /\ track.settings.complexityLevel = "advanced" => Len(track.route) \in {4, 5, 6, 7}

\* the arrival draw of the coming tick is below the generation chance
ArrivalDrawn ==
    Below(next(rngSeed),
          generationChance(gameState.session.settings.orderGenerationRate), 1000)

\* C24: order arrival is total.  In every tick whose arrival draw succeeds
\* the tick completes without a fault and appends exactly one new order to
\* the tail of pendingOrders, with a fresh id, currentStepIndex = -1, status
\* queued and slaStatus on-track, and totalOrdersGenerated grows by exactly
\* 1; in every other tick pendingOrders gains no order and
\* totalOrdersGenerated is unchanged.
C24_ArrivalTotal ==
    [][ (nTicks' = nTicks + 1
         /\ gameState.session.elapsedTime < gameState.session.duration)
        => IF ArrivalDrawn
           THEN /\ ~faulted'
                /\ Len(gameState'.pendingOrders) = Len(gameState.pendingOrders) + 1
                /\ \A k \in 1..Len(OrderIds(gameState)) :
                      OrderIds(gameState)[k] # Last(gameState'.pendingOrders).id
                /\ Last(gameState'.pendingOrders).currentStepIndex = -1
                /\ Last(gameState'.pendingOrders).status = "queued"
                /\ Last(gameState'.pendingOrders).slaStatus = "on-track"
                /\ gameState'.totalOrdersGenerated = gameState.totalOrdersGenerated + 1
           ELSE /\ ~faulted'
                /\ [ k \in 1..Len(gameState'.pendingOrders) |->
                       gameState'.pendingOrders[k].id ]
                   = [ k \in 1..Len(gameState.pendingOrders) |->
                         gameState.pendingOrders[k].id ]
                /\ gameState'.totalOrdersGenerated = gameState.totalOrdersGenerated
      ]_vars

\* a tick that processed the departments: the session had time left and the
\* updater returned
Stepped ==
    /\ nTicks' = nTicks + 1
    /\ gameState.session.elapsedTime < gameState.session.duration
    /\ ~faulted'

\* C25: after every tick no department has an empty inProcess slot together
\* with a non-empty queue, a department that received an order handed off
\* during that tick included.
C25_NoIdleWithQueue ==
    [][ Stepped =>
          \A i \in 1..Len(gameState'.departments) :
             ~ /\ gameState'.departments[i].inProcess = <<>>
               /\ gameState'.departments[i].queue # <<>>
      ]_vars

\* min(100, 25 x (queue length + 1 if an order is in process))
LoadOf(dept) ==
    IF (Len(dept.queue) + Len(dept.inProcess)) * 25 < 100
    THEN (Len(dept.queue) + Len(dept.inProcess)) * 25 ELSE 100

\* C27: after every tick every department's utilization is
\* min(100, 25 x (its queue length at the end of the tick + 1 if it holds an
\* order in process)), the queue counted with the orders handed to the
\* department during the tick, and its status is overloaded above 85, busy
\* above 50 and available otherwise.
C27_Utilization ==
    [][ Stepped =>
          \A i \in 1..Len(gameState'.departments) :
             /\ gameState'.departments[i].utilization = LoadOf(gameState'.departments[i])
             /\ gameState'.departments[i].status =
                  IF gameState'.departments[i].utilization > 85 THEN "overloaded"
                  ELSE IF gameState'.departments[i].utilization > 50 THEN "busy"
                  ELSE "available"
      ]_vars

\* an order as a queue sees it: its id and the step of its route it is on
Ticket(order) == << order.id, order.currentStepIndex >>

QueueOf(gs, deptId) ==
    [ k \in 1..Len(gs.departments[DeptIndex(gs.departments, deptId)].queue) |->
        Ticket(gs.departments[DeptIndex(gs.departments, deptId)].queue[k]) ]

InProcessOf(gs, deptId) ==
    [ k \in 1..Len(gs.departments[DeptIndex(gs.departments, deptId)].inProcess) |->
        Ticket(gs.departments[DeptIndex(gs.departments, deptId)].inProcess[k]) ]

\* the step from gs to gs2 serves the queue of the department first in, first
\* out: an order that begins processing is the one at the head of the queue,
\* and the orders behind it stay queued in their order, ahead of the orders
\* the step enqueues
ServedInOrder(gs, gs2, deptId) ==
    LET begins == InProcessOf(gs2, deptId) # <<>>
                  /\ InProcessOf(gs2, deptId) # InProcessOf(gs, deptId)
        waiting == IF begins /\ QueueOf(gs, deptId) # <<>>
                   THEN Tail(QueueOf(gs, deptId)) ELSE QueueOf(gs, deptId)
    IN /\ begins => /\ QueueOf(gs, deptId) # <<>>
                    /\ Head(QueueOf(gs, deptId)) = InProcessOf(gs2, deptId)[1]
       /\ Len(waiting) <= Len(QueueOf(gs2, deptId))
       /\ SubSeq(QueueOf(gs2, deptId), 1, Len(waiting)) = waiting

\* C26: FIFO service.  For each department, orders begin processing in the
\* order in which they entered its queue, by release, schedule or hand-off:
\* in every step that is not a rebalance, an undo or a reset, an order that
\* begins processing at a department was at the head of its queue, and every
\* order queued behind it is still queued, in the same order and ahead of
\* the orders enqueued by the step.
C26_Fifo ==
    [][ track'.cmd \in {"tick", "release", "schedule"} =>
          \A d \in 1..Len(DepartmentIds) :
             ServedInOrder(gameState, gameState', DepartmentIds[d])
      ]_vars

\* the spans of an order's timestamps that were opened during the session at
\* a department the order was handed to, and are closed: the order was done
\* at that department
HandedSpans(order) ==
    { k \in 2..Len(order.timestamps) :
        order.timestamps[k].start > 0 /\ order.timestamps[k].end # NoValue }

\* the least number of ticks that take at least ms milliseconds
TicksFor(ms) == (ms + TickMs - 1) \div TickMs

\* C28: when an order advances to its next department, the time it then
\* spends in process there, from the start of processing to done at the
\* department, is the processing time recomputed at the hand-off: the
\* department's standard duration x efficiency x equipmentCondition x the
\* complexity factor of the route.
C28_HandOffTime ==
    \A o \in OrdersHeld(gameState) :
       \A k \in HandedSpans(o) :
          o.timestamps[k].end - o.timestamps[k].start
            = TickMs * TicksFor(calculateProcessingTime(o,
                 gameState.departments[DeptIndex(gameState.departments,
                                                 o.timestamps[k].deptId)]))

\* the order in process at the department, in a state of the engine
InProcessAt(gs, deptId) ==
    gs.departments[DeptIndex(gs.departments, deptId)].inProcess

\* the step from gs to gs2 takes amount milliseconds off the remaining time
\* of the order in process at the department, when the order has more than
\* that left
Decrements(gs, gs2, deptId, amount) ==
    ( /\ InProcessAt(gs, deptId) # <<>>
      /\ OrZero(InProcessAt(gs, deptId)[1].processingTimeRemaining) > amount )
    => /\ InProcessAt(gs2, deptId) # <<>>
       /\ InProcessAt(gs2, deptId)[1].id = InProcessAt(gs, deptId)[1].id
       /\ InProcessAt(gs2, deptId)[1].processingTimeRemaining
            = InProcessAt(gs, deptId)[1].processingTimeRemaining - amount

\* C29: each tick decrements the processingTimeRemaining of an order in
\* process by one simulated second multiplied by the session's speed
\* multiplier gameSpeed, so that at multiplier k an operation of D seconds
\* completes after ceil(D / k) ticks.
C29_SpeedMultiplier ==
    [][ Stepped =>
          \A d \in 1..Len(DepartmentIds) :
             Decrements(gameState, gameState', DepartmentIds[d],
                        TickMs * gameState.session.settings.gameSpeed)
      ]_vars

\* the departments named by an equipment-failure event of the log
FailedDepartments(gs) ==
    { gs.gameEvents[k].departmentId :
        k \in { j \in 1..Len(gs.gameEvents) :
                  gs.gameEvents[j].type = "equipment-failure" } }

\* C30: an equipment-failure event names a department whose status is not
\* maintenance, and from the tick it is generated the department's
\* processing rate is halved: the remaining time of its order in process
\* goes down by half the normal amount per tick, while the departments no
\* such event names are unaffected.
C30_FailureHalvesRate ==
    [][ Stepped =>
          /\ \A id \in FailedDepartments(gameState') \ FailedDepartments(gameState) :
                /\ DeptIndex(gameState'.departments, id) # 0
                /\ gameState'.departments[DeptIndex(gameState'.departments, id)].status
                     # "maintenance"
          /\ \A d \in 1..Len(DepartmentIds) :
                Decrements(gameState, gameState', DepartmentIds[d],
                           IF DepartmentIds[d] \in FailedDepartments(gameState)
                           THEN (TickMs * gameState.session.settings.gameSpeed) \div 2
                           ELSE TickMs * gameState.session.settings.gameSpeed)
      ]_vars

\* the performance snapshot of a state set against the state itself
OnTime(gs) == SelectSeq(gs.completedOrders, LAMBDA o : o.status = "completed-on-time")

PerformanceAgrees(gs) ==
    /\ gs.performance.totalThroughput = Len(gs.completedOrders)
    /\ gs.performance.onTimeDeliveryRate =
         IF gs.completedOrders = <<>> THEN <<0, 1>>
         ELSE Fraction(100 * Len(OnTime(gs)), Len(gs.completedOrders))
    /\ DOMAIN gs.performance.utilizationRates =
         { gs.departments[i].id : i \in 1..Len(gs.departments) }
    /\ \A i \in 1..Len(gs.departments) :
         gs.performance.utilizationRates[gs.departments[i].id] =
           gs.departments[i].utilization

OperationNames == { <<"Cutting">>, <<"Welding">>, <<"Cutting", "Welding">> }

SpeedDepartment(id, names, minutes) ==
    [ id |-> id, standardProcessingTime |-> minutes, utilization |-> 50,
      operations |-> [ k \in 1..Len(names) |-> [name |-> names[k]] ] ]

InitSpeed ==
    /\ gameState = initializeGameState(TutorialSettings, 0)
    /\ isRunning = FALSE
    /\ currentDecisionIndex = -1
    /\ lastUpdateTime = 0
    /\ rngSeed = hashCode(SeedTutorial)
    /\ now = 0
    /\ faulted = FALSE
    /\ nTicks = 0
    /\ nCmds = 0
    /\ limits = MainLimits
    /\ \E names \in [1..SpeedDepartments -> OperationNames],
          minutes \in [1..SpeedDepartments -> 1..MaxMinutes],
          route \in UNION { [1..len -> 1..SpeedDepartments] : len \in 0..MaxRouteLen } :
         track = [ cmd |-> "speed-input",
                   departments |-> [ i \in 1..SpeedDepartments |->
                                       SpeedDepartment(i, names[i], minutes[i]) ],
                   route |-> route, result |-> <<>> ]

speedPass ==
    /\ track.cmd = "speed-input"
    /\ track' = [ track EXCEPT
                    !.cmd = "speed",
                    !.result = optimizeForSpeed(track.route,
                                                departmentNodes(track.departments)) ]
    /\ UNCHANGED << gameState, isRunning, currentDecisionIndex, lastUpdateTime, rngSeed,
                    now, faulted, nTicks, nCmds, limits >>

SpecSpeed == InitSpeed /\ [][speedPass]_vars

\* the departments other than departments[i] that share an operation name
\* with it and have a strictly lower standard processing time
FasterAlternatives(departments, i) ==
    { j \in 1..Len(departments) :
        /\ departments[j].id # departments[i].id
        /\ departments[j].standardProcessingTime < departments[i].standardProcessingTime
        /\ \E a \in 1..Len(departments[j].operations),
              b \in 1..Len(departments[i].operations) :
             departments[j].operations[a].name = departments[i].operations[b].name }

\* C32: the speed pass returns a route of the same length; a step with no
\* faster alternative sharing an operation is unchanged, any other step is
\* replaced by such an alternative of the least processing time; the total
\* time of the route by calculateRouteMetrics does not increase.
C32_SpeedPass ==
    track.cmd = "speed" =>
        /\ Len(track.result) = Len(track.route)
        /\ \A k \in 1..Len(track.route) :
             IF FasterAlternatives(track.departments, track.route[k]) = {}
             THEN track.result[k] = track.route[k]
             ELSE \E j \in FasterAlternatives(track.departments, track.route[k]) :
                     /\ track.result[k] = track.departments[j].id
                     /\ \A j2 \in FasterAlternatives(track.departments, track.route[k]) :
                          track.departments[j].standardProcessingTime
                            <= track.departments[j2].standardProcessingTime
        /\ calculateRouteMetrics(track.result, track.departments).totalTime
             <= calculateRouteMetrics(track.route, track.departments).totalTime

\* a route of which one step was replaced, with two alternatives of different
\* times to choose from, and another was kept
C32_Replaced ==
    /\ track.cmd = "speed"
    /\ \E k \in 1..Len(track.route) :
         /\ track.result[k] # track.route[k]
         /\ \E j, j2 \in FasterAlternatives(track.departments, track.route[k]) :
              track.departments[j].standardProcessingTime
                < track.departments[j2].standardProcessingTime
    /\ \E k \in 1..Len(track.route) : track.result[k] = track.route[k]
    /\ calculateRouteMetrics(track.result, track.departments).totalTime
         < calculateRouteMetrics(track.route, track.departments).totalTime

\* The generator on its own: a seed of up to MaxSeedLen characters `a` or `z`
\* or one of two scenarios, ranges that the initialisation passes to between, and up to MaxDraws calls of next, between and choice.
\* track.state is twice the state of the generator, track.value the value
\* returned as <<numerator, denominator>>, track.arg the arguments.
InitRandom ==
    /\ gameState = initializeGameState(TutorialSettings, 0)
    /\ isRunning = FALSE
    /\ currentDecisionIndex = -1
    /\ lastUpdateTime = 0
    /\ rngSeed = hashCode(SeedTutorial)
    /\ now = 0
    /\ faulted = FALSE
    /\ nTicks = 0
    /\ nCmds = 0
    /\ limits = MainLimits
    /\ \E seed \in UNION { [1..len -> {97, 122}] : len \in 0..MaxSeedLen }
                     \cup {SeedTutorial, SeedRush} :
       \E t \in SeededRandom(seed) :
         track = [ cmd |-> "constructed", seed |-> seed, state |-> t, before |-> t,
                   value |-> <<0, 1>>, arg |-> <<>>, calls |-> 0 ]

callNext ==
    /\ track.calls < MaxDraws
    /\ track' = [ track EXCEPT
                    !.cmd = "next", !.calls = @ + 1, !.arg = <<>>,
                    !.before = track.state,
                    !.state = nextHalves(track.state),
                    !.value = << nextHalves(track.state), 2 * LcgMod >> ]
    /\ UNCHANGED << gameState, isRunning, currentDecisionIndex, lastUpdateTime, rngSeed,
                    now, faulted, nTicks, nCmds, limits >>

\* min + this.next() * (max - min)
callBetween ==
    /\ track.calls < MaxDraws
    /\ \E range \in { <<0, 100>>, <<2, 4>>, <<15, 60>>, <<80, 120>>, <<90, 240>> } :
         track' = [ track EXCEPT
                      !.cmd = "between", !.calls = @ + 1, !.arg = range,
                      !.before = track.state,
                      !.state = nextHalves(track.state),
                      !.value = << range[1] * 2 * LcgMod
                                     + nextHalves(track.state) * (range[2] - range[1]),
                                   2 * LcgMod >> ]
    /\ UNCHANGED << gameState, isRunning, currentDecisionIndex, lastUpdateTime, rngSeed,
                    now, faulted, nTicks, nCmds, limits >>

\* array[Math.floor(this.next() * array.length)]: the index taken, counted
\* from 0
callChoice ==
    /\ track.calls < MaxDraws
    /\ \E length \in 1..MaxItems :
         track' = [ track EXCEPT
                      !.cmd = "choice", !.calls = @ + 1, !.arg = <<length>>,
                      !.before = track.state,
                      !.state = nextHalves(track.state),
                      !.value = << (nextHalves(track.state) * length) \div (2 * LcgMod),
                                   1 >> ]
    /\ UNCHANGED << gameState, isRunning, currentDecisionIndex, lastUpdateTime, rngSeed,
                    now, faulted, nTicks, nCmds, limits >>

SpecRandom == InitRandom /\ [][callNext \/ callBetween \/ callChoice]_vars

\* (s x 9301 + 49297) mod 233280 for a whole s below 233280, the product
\* taken in two parts
Recurrence(s) ==
    ((s % 480) * LcgMul + (s \div 480) * ((480 * LcgMul) % LcgMod) + LcgInc) % LcgMod

\* what C33 says of the state a call has left and of the value it returned
GeneratorContract ==
    /\ track.state % 2 = 0
    /\ track.state \div 2 \in 0..(LcgMod - 1)
    /\ track.before % 2 = 0
         => /\ track.state = 2 * Recurrence((track.before \div 2) % LcgMod)
            /\ track.state = 2 * next((track.before \div 2) % LcgMod)
    /\ track.cmd = "next" =>
         /\ track.value = << track.state, 2 * LcgMod >>
         /\ 0 <= track.value[1] /\ track.value[1] < track.value[2]
    /\ track.cmd = "between" =>
         /\ track.arg[1] * track.value[2] <= track.value[1]
         /\ track.value[1] < track.arg[2] * track.value[2]
    /\ track.cmd = "choice" => track.value[1] \in 0..(track.arg[1] - 1)

C34_CompletionStatus ==
    \A i \in 1..Len(gameState.completedOrders) :
        gameState.completedOrders[i].status =
            IF gameState.completedOrders[i].completedAt > gameState.completedOrders[i].dueDate
            THEN "completed-late" ELSE "completed-on-time"

\* the steps an order has not finished, the one it is at included
StepsLeft(order) == SubSeq(order.route, order.currentStepIndex + 1, Len(order.route))

\* two orders still have a department in common
Competes(o, p) ==
    \E a \in 1..Len(StepsLeft(o)), b \in 1..Len(StepsLeft(p)) :
        StepsLeft(o)[a] = StepsLeft(p)[b]

\* The ticks within which order o is through its route when every department
\* works on: the operations of the steps left to o and to every order in a
\* department that can be in its way, and a tick for every hand-off.
TicksNeeded(gs, o) ==
    SeqSum([ i \in 1..Len(gs.departments) |->
        SeqSum([ k \in 1..Len(gs.departments[i].queue \o gs.departments[i].inProcess) |->
            IF Competes(o, (gs.departments[i].queue \o gs.departments[i].inProcess)[k])
            THEN RouteTicks(StepsLeft((gs.departments[i].queue
                                         \o gs.departments[i].inProcess)[k]),
                            gs.departments)
                 + Len((gs.departments[i].queue \o gs.departments[i].inProcess)[k].route)
            ELSE 0 ]) ])

\* the ticks the session still has
TicksLeft ==
    IF limits.ticks - nTicks
         < (gameState.session.duration - gameState.session.elapsedTime) \div TickMs
    THEN limits.ticks - nTicks
    ELSE (gameState.session.duration - gameState.session.elapsedTime) \div TickMs

Completed(id) ==
    \E k \in 1..Len(gameState.completedOrders) : gameState.completedOrders[k].id = id

IdsInDepartments(gs) ==
    UNION { { o.id : o \in OrdersAt(gs.departments[i]) } : i \in 1..Len(gs.departments) }

\* C36: a tick never removes an order.  Every order that is in a
\* department's queue or inProcess slot before a tick is, after the tick,
\* in a department's queue, in an inProcess slot or in completedOrders.
C36_TickKeepsOrders ==
    [][ Stepped =>
          \A id \in IdsInDepartments(gameState) :
             \/ id \in IdsInDepartments(gameState')
             \/ \E k \in 1..Len(gameState'.completedOrders) :
                   gameState'.completedOrders[k].id = id
      ]_vars

\* no order is in two places at once
EachOnce(gs) ==
    \A i, j \in 1..Len(OrderIds(gs)) : OrderIds(gs)[i] = OrderIds(gs)[j] => i = j

IdsPresent(gs) == { OrderIds(gs)[i] : i \in 1..Len(OrderIds(gs)) }

\* a step of undoLastDecision that reverts a release, whose snapshot holds
\* departments and pendingOrders
UndoesRelease ==
    /\ nCmds' = nCmds + 1
    /\ track'.cmd = "undo"
    /\ currentDecisionIndex' = currentDecisionIndex - 1
    /\ DOMAIN gameState.decisions[currentDecisionIndex + 1].previousState
         = {"departments", "pendingOrders"}

\* C37: undo preserves order conservation when ticks ran between a release
\* and its undo: undoing a release in a state where every order is in exactly
\* one of pendingOrders, a department, completedOrders and rejectedOrders
\* leaves every one of those orders present and in exactly one place, none
\* both completed and back in pendingOrders or a department.
C37_UndoConserves ==
    [][ (UndoesRelease /\ EachOnce(gameState))
          => (EachOnce(gameState') /\ IdsPresent(gameState') = IdsPresent(gameState)) ]_vars

\* C38: decision cursor bounds.  In every reachable state
\* -1 <= currentDecisionIndex <= Len(decisions) - 1, across release, schedule,
\* rebalance, optimizeRoute, undo, redo, clearHistory and reset.
C38_CursorBounds ==
    /\ -1 <= currentDecisionIndex
    /\ currentDecisionIndex <= Len(gameState.decisions) - 1

\* a step of undoLastDecision that reverts a schedule, rebalance or
\* optimizeRoute decision, whose snapshot is the whole state, after ticks ran
UndoesWholeState ==
    /\ nCmds' = nCmds + 1
    /\ track'.cmd = "undo"
    /\ currentDecisionIndex' = currentDecisionIndex - 1
    /\ DOMAIN gameState.decisions[currentDecisionIndex + 1].previousState
         = DOMAIN gameState
    /\ gameState.session.elapsedTime
         > gameState.decisions[currentDecisionIndex + 1].previousState.session.elapsedTime

\* C39: undoing a schedule, rebalance or optimizeRoute decision after ticks
\* have run does not change session.elapsedTime, session.status,
\* completedOrders, gameEvents, performance or totalOrdersGenerated.
C39_UndoFrame ==
    [][ UndoesWholeState =>
          /\ gameState'.session.elapsedTime = gameState.session.elapsedTime
          /\ gameState'.session.status = gameState.session.status
          /\ gameState'.completedOrders = gameState.completedOrders
          /\ gameState'.gameEvents = gameState.gameEvents
          /\ gameState'.performance = gameState.performance
          /\ gameState'.totalOrdersGenerated = gameState.totalOrdersGenerated ]_vars

\* C40: time spent in setup or paused does not count toward
\* session.elapsedTime: every tick that advances the session, the first one
\* after start or resume included, adds one tick interval to elapsedTime.
C40_PauseNotCounted ==
    [][ Stepped =>
          gameState'.session.elapsedTime = gameState.session.elapsedTime + TickMs ]_vars

====
